---- MODULE Spec2Model ----
(***************************************************************************)
(* Model of the ii-telegram-agent core: the Agent loop                     *)
(* (agent/core.py), the conversation compactor (agent/compaction.py), the  *)
(* exec-approval gate (tools/exec_approval.py) and the scheduler           *)
(* (scheduler/scheduler.py).                                               *)
(*                                                                         *)
(* Strings are modelled as sequences of parts; a part is a literal of the  *)
(* source or a representative external text, with its length and the       *)
(* keywords the code searches for.  Concatenation (f-strings) is \o.       *)
(***************************************************************************)
EXTENDS Integers, Sequences, FiniteSets, TLC

VARIABLES
    messages,           \* ConversationContext.messages
    compaction_count,   \* ConversationContext.compaction_count
    pc,                 \* per caller: position inside Agent.process_message
    iteration,          \* per caller: local `iteration`
    response,           \* per caller: local `response` (last LLMResponse)
    tc_idx,             \* per caller: index of the tool call being handled
    snapshot,           \* per caller: slices held by compact_conversation across its await
    rows,               \* Message rows of the session in the database (role, content)
    tools,              \* ToolRegistry._tools, in insertion order (a dict)
    risk_map,           \* ApprovalManager._risk_map
    rate_limits,        \* TelegramBot._rate_limits
    tool_scheduler,     \* scheduler_tool._scheduler: the Scheduler of the tools
    cron_scan,          \* position of a _calculate_next_run call in its while loop
    sessions,           \* the sessions table of one user, with each session's messages
    contexts,           \* SessionManager._contexts: session id -> cached conversation
    handler,            \* each update handler's position in process_message / clear_session
    inbound,            \* number of updates of the user taken up so far
    cleared,            \* history: the messages stored when a clear_session returned
    pending,            \* ApprovalManager._pending
    approval_events,    \* ApprovalManager._approval_events (TRUE = set)
    approval_required,  \* ApprovalManager.approval_required
    now,                \* wall clock
    waiters,            \* callers inside wait_for_approval
    tasks,              \* Scheduler.tasks
    tasks_file,         \* contents of scheduled_tasks.json
    running,            \* Scheduler._running
    loop,               \* position of Scheduler._run_loop
    stops,              \* number of Scheduler.stop calls
    \* history (not program state)
    turns,              \* number of turns begun
    cur_turn,           \* per caller: number of its current turn
    gateway_calls,      \* per caller: llm.generate calls made in its current turn
    executed,           \* tool calls handed to ToolRegistry.execute, in order
    approvals_created,  \* number of approval ids allocated
    next_tc,            \* number of tool-call ids the gateway has issued
    turn_info,          \* per caller: record of its current / last turn
    last_op,            \* last gate operation and its return value
    fired,              \* per task id: times the task was passed to the callback
    admitted,           \* per user: times at which check_rate_limit returned True
    entered,            \* per user: messages handed to process_message
    handled,            \* number of updates message_handler has received
    removed             \* task ids for which remove_task returned True

agentVars == <<messages, compaction_count, pc, iteration, response, tc_idx, snapshot,
              rows>>
rateVars  == <<rate_limits, admitted, entered, handled>>
toolSchedVars == <<tool_scheduler, removed>>
sessionVars == <<sessions, contexts, handler, inbound, cleared>>
restVars  == <<cron_scan, sessionVars>>
moreVars  == <<toolSchedVars, restVars>>
sideVars  == <<tools, risk_map, rateVars, moreVars>>
gateVars  == <<pending, approval_events, approval_required>>
schedVars == <<tasks, tasks_file, running, loop, stops, fired>>
histVars  == <<turns, cur_turn, gateway_calls, executed, approvals_created, next_tc, turn_info>>
vars == <<messages, compaction_count, pc, iteration, response, tc_idx, snapshot, rows,
          tools, risk_map, rate_limits, tool_scheduler, cron_scan,
          sessions, contexts, handler, inbound, cleared,
          pending, approval_events, approval_required, now, waiters,
          tasks, tasks_file, running, loop, stops,
          turns, cur_turn, gateway_calls, executed, approvals_created, next_tc,
          turn_info, last_op, fired, admitted, entered, handled, removed>>

(***************************************************************************)
(* Bounds of the model                                                     *)
(***************************************************************************)
max_tool_iterations == 2      \* Agent.max_tool_iterations, scaled down
max_context_messages == 5     \* Settings.max_context_messages, scaled down
max_context_tokens == 60      \* CompactionConfig.max_context_tokens, scaled down
MaxTurns == 2                 \* turns begun in one behaviour
MaxCalls == 2                 \* tool calls in one gateway response
MaxToolCalls == 2             \* tool calls the gateway issues in one behaviour
MaxApprovals == 2             \* approval requests created in one behaviour
MaxTasks == 2                 \* tasks added in one behaviour
MaxStops == 1                 \* Scheduler.stop calls in one behaviour
CronPeriod == 2               \* the cron expressions used: every CronPeriod minutes
MaxSchedTime == 3             \* clock ticks in one behaviour of the scheduler or the rate limiter
MaxTime == 6                  \* clock ticks in one behaviour
MaxLogLen == 6                \* messages of a log handed to a single call
MaxTruncate == 2              \* max_messages handed to a single truncate call
session_timeout_hours == 2       \* Settings.session_timeout_hours
MaxInbound == 4                  \* updates of the user taken up in a run
rate_limit_messages == 2      \* Settings.rate_limit_messages, scaled down
MaxMessages == 5              \* updates message_handler receives in one behaviour

(***************************************************************************)
(* Program constants                                                       *)
(***************************************************************************)
CHARS_PER_TOKEN == 4
MESSAGE_OVERHEAD == 20
compaction_threshold_pct == 70
PRESERVE_IMPORTANCE == 8
EXPIRY_MINUTES == 5
RateWindow == 2               \* window = timedelta(minutes=1), the clock of the
                              \* rate limiter ticking every half minute

Procs == {1, 2}
NoId == 0
NoTime == 0 - 1               \* None where a datetime may stand
NoCron == 0                   \* None where a cron expression may stand

(***************************************************************************)
(* Text                                                                    *)
(***************************************************************************)
P(k) == [t |-> k, ref |-> 0]
PRef(k, r) == [t |-> k, ref |-> r]

\* len() of each part
PartLen(p) ==
    CASE p.t = "hi"               -> 2      \* a short user text
      [] p.t = "fact"             -> 28     \* "remember that my name is Bob"
      [] p.t = "text"             -> 13     \* "I found cats."
      [] p.t = "found"            -> 5      \* a short tool output
      [] p.t = "boom"             -> 28     \* ToolResult.error: "command exited with status 1"
      [] p.t = "not_found"        -> 27     \* "Tool 'web_search' not found"
      [] p.t = "Error: "          -> 7
      [] p.t = "api_error"        -> 9      \* str(e) of a gateway exception: "API Error"
      [] p.t = "llm_error_prefix" -> 48
      [] p.t = "approval_head"    -> 74
      [] p.t = "approval_id"      -> 8
      [] p.t = "approval_mid"     -> 16
      [] p.t = "approval_tail"    -> 23
      [] p.t = "sep"              -> 2
      [] p.t = "cap"              -> 78
      [] p.t = "summary_prefix"   -> 33
      [] p.t = "summary"          -> 7      \* "SUMMARY"
      [] p.t = "fallback"         -> 100
      [] p.t = "ack"              -> 83
      [] OTHER                    -> 0

\* the part contains one of the fact markers of _classify_message_importance
PartHasMarker(p) == p.t \in {"fact"}
\* the part contains "error" or "failed" (case-insensitive)
PartHasError(p) == p.t \in {"Error: ", "api_error", "llm_error_prefix"}
\* the part contains one of the phrases of _extract_key_facts
PartHasUserFact(p) == p.t \in {"fact"}

RECURSIVE ContentLen(_)
ContentLen(c) == IF c = <<>> THEN 0 ELSE PartLen(Head(c)) + ContentLen(Tail(c))

ContentHasMarker(c) == \E i \in 1..Len(c) : PartHasMarker(c[i])
ContentHasError(c) == \E i \in 1..Len(c) : PartHasError(c[i])

\* result_text of the approval branch of Agent.process_message
ApprovalText(id) ==
    << P("approval_head"), PRef("approval_id", id), P("approval_mid"),
       PRef("approval_id", id), P("approval_tail") >>

TimeoutText == << P("cap") >>

(***************************************************************************)
(* Messages (LLMMessage); `turn` is history: the turn that appended it     *)
(***************************************************************************)
UserMessage(content, t) ==
    [role |-> "user", content |-> content, tool_calls |-> <<>>,
     tool_call_id |-> NoId, name |-> "", turn |-> t]

AssistantMessage(content, tool_calls, t) ==
    [role |-> "assistant", content |-> content, tool_calls |-> tool_calls,
     tool_call_id |-> NoId, name |-> "", turn |-> t]

ToolResultMessage(tool_call_id, result, tool_name, t) ==
    [role |-> "tool", content |-> result, tool_calls |-> <<>>,
     tool_call_id |-> tool_call_id, name |-> tool_name, turn |-> t]

\* Python s[-n:]
PySuffix(s, n) ==
    IF n = 0 \/ n >= Len(s) THEN s ELSE SubSeq(s, Len(s) - n + 1, Len(s))

\* Python s[:-n]
PyDropLast(s, n) ==
    IF n = 0 \/ n >= Len(s) THEN <<>> ELSE SubSeq(s, 1, Len(s) - n)

truncate(msgs, max_messages) ==
    IF Len(msgs) > max_messages THEN PySuffix(msgs, max_messages) ELSE msgs

(***************************************************************************)
(* Compaction (agent/compaction.py)                                        *)
(***************************************************************************)
RECURSIVE TotalChars(_)
TotalChars(msgs) ==
    IF msgs = <<>> THEN 0 ELSE ContentLen(Head(msgs).content) + TotalChars(Tail(msgs))

\* estimate_tokens with the overhead added once, not once per message
estimate_tokens_fixed_overhead(msgs) ==
    (TotalChars(msgs) + MESSAGE_OVERHEAD) \div CHARS_PER_TOKEN

estimate_tokens(msgs) ==
    (TotalChars(msgs) + Len(msgs) * MESSAGE_OVERHEAD) \div CHARS_PER_TOKEN

\* int(max_context_tokens * compaction_threshold)
threshold_tokens == (max_context_tokens * compaction_threshold_pct) \div 100

\* CompactionConfig.keep_recent_messages as set by Agent.__init__
keep_recent_messages == max_context_messages \div 2

Clamp(lo, hi, x) == IF x < lo THEN lo ELSE IF x > hi THEN hi ELSE x

classify_message_importance(m) ==
    Clamp(0, 10,
          5
          + (IF m.role = "tool" THEN 2 ELSE 0)
          + (IF m.tool_calls # <<>> THEN 2 ELSE 0)
          + (IF ContentHasMarker(m.content) THEN 3 ELSE 0)
          + (IF ContentHasError(m.content) THEN 1 ELSE 0)
          - (IF ContentLen(m.content) < 20 THEN 2 ELSE 0)
          + (IF ContentLen(m.content) > 1000 THEN 1 ELSE 0))

RECURSIVE SelectSeqBy(_, _)
SelectSeqBy(s, keep) ==
    IF s = <<>> THEN <<>>
    ELSE IF keep[1] THEN <<Head(s)>> \o SelectSeqBy(Tail(s), Tail(keep))
         ELSE SelectSeqBy(Tail(s), Tail(keep))

\* compaction_plan without the early return for an empty older_messages
compaction_plan_no_older_check(msgs, enabled) ==
    LET keep_count == IF keep_recent_messages * 2 < Len(msgs)
                      THEN keep_recent_messages * 2 ELSE Len(msgs)
        older      == IF keep_count < Len(msgs) THEN PyDropLast(msgs, keep_count) ELSE <<>>
        recent     == PySuffix(msgs, keep_count)
        important  == [i \in 1..Len(older) |->
                          classify_message_importance(older[i]) >= PRESERVE_IMPORTANCE]
        unimportant == [i \in 1..Len(older) |-> ~important[i]]
    IN  IF (~enabled) \/ estimate_tokens(msgs) < threshold_tokens
        THEN [replace |-> FALSE, preserved |-> <<>>, recent |-> msgs, to_summarize |-> <<>>]
        ELSE [replace |-> TRUE,
              preserved |-> SelectSeqBy(older, important),
              recent |-> recent,
              to_summarize |-> SelectSeqBy(older, unimportant)]

\* The synchronous head of compact_conversation, up to the summary call:
\* replace = FALSE when it returns the log unchanged.
compaction_plan(msgs, enabled) ==
    LET keep_count == IF keep_recent_messages * 2 < Len(msgs)
                      THEN keep_recent_messages * 2 ELSE Len(msgs)
        older      == IF keep_count < Len(msgs) THEN PyDropLast(msgs, keep_count) ELSE <<>>
        recent     == PySuffix(msgs, keep_count)
        important  == [i \in 1..Len(older) |->
                          classify_message_importance(older[i]) >= PRESERVE_IMPORTANCE]
        unimportant == [i \in 1..Len(older) |-> ~important[i]]
    IN  IF (~enabled) \/ estimate_tokens(msgs) < threshold_tokens \/ older = <<>>
        THEN [replace |-> FALSE, preserved |-> <<>>, recent |-> msgs, to_summarize |-> <<>>]
        ELSE [replace |-> TRUE,
              preserved |-> SelectSeqBy(older, important),
              recent |-> recent,
              to_summarize |-> SelectSeqBy(older, unimportant)]

\* compacted_messages with the recent messages put before the preserved ones
compacted_messages_recent_first(plan, summary) ==
    << UserMessage(<<P("summary_prefix")>> \o summary, 0),
       AssistantMessage(<<P("ack")>>, <<>>, 0) >>
    \o plan.recent \o plan.preserved

\* The tail of compact_conversation: the compacted list
compacted_messages(plan, summary) ==
    << UserMessage(<<P("summary_prefix")>> \o summary, 0),
       AssistantMessage(<<P("ack")>>, <<>>, 0) >>
    \o plan.preserved \o plan.recent

NoPlan == [replace |-> FALSE, preserved |-> <<>>, recent |-> <<>>, to_summarize |-> <<>>]

\* compact_conversation without the except branch around _generate_summary
compact_conversation_summary_raises(msgs, enabled, summary_ok) ==
    LET plan == compaction_plan(msgs, enabled)
    IN  IF plan.replace /\ summary_ok
        THEN [messages |-> compacted_messages(plan, <<P("summary")>>), success |-> TRUE,
              replaced |-> TRUE, gateway_called |-> TRUE, raised |-> FALSE]
        ELSE IF plan.replace
        THEN [messages |-> msgs, success |-> FALSE,
              replaced |-> FALSE, gateway_called |-> TRUE, raised |-> TRUE]
        ELSE [messages |-> msgs, success |-> TRUE,
              replaced |-> FALSE, gateway_called |-> FALSE, raised |-> FALSE]

\* compact_conversation as one call: the returned list, CompactionResult.success,
\* and whether _generate_summary (one llm.generate call) was reached; summary_ok
\* is whether that call returned or raised (then _fallback_summary is used).
compact_conversation(msgs, enabled, summary_ok) ==
    LET plan == compaction_plan(msgs, enabled)
        summary == IF summary_ok THEN <<P("summary")>> ELSE <<P("fallback")>>
    IN  IF plan.replace
        THEN [messages |-> compacted_messages(plan, summary), success |-> TRUE,
              replaced |-> TRUE, gateway_called |-> TRUE, raised |-> FALSE]
        ELSE [messages |-> msgs, success |-> TRUE,
              replaced |-> FALSE, gateway_called |-> FALSE, raised |-> FALSE]

(***************************************************************************)
(* Exec-approval gate (tools/exec_approval.py)                             *)
(***************************************************************************)
DEFAULT_RISK_MAP(tool_name) ==
    CASE tool_name = "web_search"   -> "safe"
      [] tool_name = "execute_code" -> "moderate"
      [] tool_name = "run_command"  -> "dangerous"
      [] tool_name = "write_file"   -> "dangerous"
      [] OTHER                      -> "unknown"

\* dict(DEFAULT_RISK_MAP), cut down to four tools
DefaultRiskNames == {"web_search", "execute_code", "run_command", "write_file"}

default_risk_map == [n \in DefaultRiskNames |-> DEFAULT_RISK_MAP(n)]

get_risk_level(tool_name) ==
    IF tool_name \in DOMAIN risk_map THEN risk_map[tool_name] ELSE "moderate"

\* needs_approval looking at the risk level only
needs_approval_ignores_flag(tool_name) ==
    get_risk_level(tool_name) = "dangerous"

\* needs_approval asking for the wrong risk level
needs_approval_moderate(tool_name) ==
    IF ~approval_required THEN FALSE
    ELSE get_risk_level(tool_name) = "moderate"

needs_approval(tool_name) ==
    IF ~approval_required THEN FALSE
    ELSE get_risk_level(tool_name) = "dangerous"

is_expired(a) == now > a.expires_at

\* is_pending without its test of approved
is_pending_ignores_approved(a) == (~a.denied) /\ (~is_expired(a))

\* is_pending without its is_expired test
is_pending_ignores_expiry(a) == (~a.approved) /\ (~a.denied)

is_pending(a) == (~a.approved) /\ (~a.denied) /\ (~is_expired(a))

ApprovalIds == 1..MaxApprovals

\* callers of wait_for_approval, and one that is not inside it
Waiters == {1, 2}
WaitTimeouts == {2}
NoWait == [state |-> "none", id |-> NoId, deadline |-> 0, why |-> "none", result |-> FALSE]

\* PendingApproval as built by create_approval_request
NewApproval(id, tool_name, arguments) ==
    [id |-> id, tool_name |-> tool_name, arguments |-> arguments,
     risk_level |-> get_risk_level(tool_name),
     created_at |-> now,
     expires_at |-> now + EXPIRY_MINUTES,
     approved |-> FALSE, denied |-> FALSE]

Put(f, k, v) == [x \in (DOMAIN f) \cup {k} |-> IF x = k THEN v ELSE f[x]]
Drop(f, S) == [x \in (DOMAIN f) \ S |-> f[x]]

\* create_approval_request: the new _pending and _approval_events
create_approval_request(id, tool_name, arguments) ==
    /\ pending' = Put(pending, id, NewApproval(id, tool_name, arguments))
    /\ approval_events' = Put(approval_events, id, FALSE)
    /\ approvals_created' = approvals_created + 1

\* no gate operation was performed in this step
NoOp == [op |-> "none", id |-> NoId, result |-> FALSE, listed |-> {}]

\* the guard of approve and deny without its is_pending test
ApproveOk_known(id) == id \in DOMAIN pending

\* approve and deny go ahead: the request is there and is_pending
ApproveOk(id) == id \in DOMAIN pending /\ is_pending(pending[id])

approve(id) ==
    /\ IF ApproveOk(id)
       THEN /\ pending' = [pending EXCEPT ![id].approved = TRUE]
            /\ approval_events' = IF id \in DOMAIN approval_events
                                  THEN [approval_events EXCEPT ![id] = TRUE]
                                  ELSE approval_events
            /\ last_op' = [op |-> "approve", id |-> id, result |-> TRUE, listed |-> {}]
       ELSE /\ UNCHANGED <<pending, approval_events>>
            /\ last_op' = [op |-> "approve", id |-> id, result |-> FALSE, listed |-> {}]
    /\ UNCHANGED approval_required

deny(id) ==
    /\ IF ApproveOk(id)
       THEN /\ pending' = [pending EXCEPT ![id].denied = TRUE]
            /\ approval_events' = IF id \in DOMAIN approval_events
                                  THEN [approval_events EXCEPT ![id] = TRUE]
                                  ELSE approval_events
            /\ last_op' = [op |-> "deny", id |-> id, result |-> TRUE, listed |-> {}]
       ELSE /\ UNCHANGED <<pending, approval_events>>
            /\ last_op' = [op |-> "deny", id |-> id, result |-> FALSE, listed |-> {}]
    /\ UNCHANGED approval_required

\* ids removed by _cleanup_expired
\* _cleanup_expired sweeping the expired requests only
cleanup_expired_ids_expired_only ==
    {aid \in DOMAIN pending : is_expired(pending[aid])}

cleanup_expired_ids ==
    {aid \in DOMAIN pending :
        is_expired(pending[aid]) \/ pending[aid].approved \/ pending[aid].denied}

\* list_pending: sweep, then report the pending ones (the ids, in last_op)
list_pending ==
    /\ pending' = Drop(pending, cleanup_expired_ids)
    /\ approval_events' = Drop(approval_events, cleanup_expired_ids)
    /\ last_op' = [op |-> "list_pending", id |-> NoId, result |-> TRUE,
                   listed |-> {aid \in DOMAIN pending' : is_pending(pending'[aid])}]
    /\ UNCHANGED approval_required

(***************************************************************************)
(* Tool registry (tools/registry.py) and the gateway's answers             *)
(***************************************************************************)
\* tools as the registry holds them: a BaseTool carries its own JSON schema, a
\* Tool a list of ToolParameter
ToolParameter(name, required) == [name |-> name, required |-> required]

BaseTool(name, properties, required) ==
    [kind |-> "BaseTool", name |-> name,
     parameters |-> [properties |-> properties, required |-> required]]

Tool(name, parameters) ==
    [kind |-> "Tool", name |-> name, parameters |-> parameters]

\* Tool.get_parameters_schema: properties keyed by name, required in list order
get_parameters_schema(tool) ==
    [properties |-> {tool.parameters[i].name : i \in 1..Len(tool.parameters)},
     required |-> LET req == SelectSeq(tool.parameters, LAMBDA q : q.required)
                  IN  [i \in 1..Len(req) |-> req[i].name]]

\* the entries of a dict kept as a sequence of [key, value]
Keys(d) == {d[i].key : i \in 1..Len(d)}

DictGet(d, k) ==
    IF k \in Keys(d) THEN (CHOOSE i \in 1..Len(d) : d[i].key = k) ELSE 0

\* d[k] = v: an existing key keeps its place, a new key goes last
DictSet(d, k, v) ==
    IF k \in Keys(d)
    THEN [i \in 1..Len(d) |-> IF d[i].key = k THEN [key |-> k, value |-> v] ELSE d[i]]
    ELSE Append(d, [key |-> k, value |-> v])

DictDel(d, k) == SelectSeq(d, LAMBDA e : e.key # k)

\* register with the entry always added at the end
register_appends(d, tool) == Append(d, [key |-> tool.name, value |-> tool])

register(d, tool) == DictSet(d, tool.name, tool)

unregister(d, name) == IF name \in Keys(d) THEN DictDel(d, name) ELSE d

\* ToolRegistry.get: the tool, or NoTool for None
NoTool == [kind |-> "None", name |-> "", parameters |-> <<>>]

get(d, name) == IF name \in Keys(d) THEN d[DictGet(d, name)].value ELSE NoTool

list_tools(d) == [i \in 1..Len(d) |-> d[i].key]

get_definitions(d) ==
    [i \in 1..Len(d) |->
        LET tool == d[i].value
        IN  [name |-> tool.name,
             parameters |-> IF tool.kind = "Tool" THEN get_parameters_schema(tool)
                            ELSE tool.parameters]]

\* the registry after _initialize_default_tools, cut down to two tools
WebSearchTool == BaseTool("web_search", {"query", "max_results"}, <<"query">>)

RunCommandTool ==
    Tool("run_command", << ToolParameter("command", TRUE),
                           ToolParameter("working_dir", FALSE) >>)

DefaultTools == register(register(<<>>, WebSearchTool), RunCommandTool)

RegisteredTools == Keys(tools)
ToolNames == {"web_search", "run_command"}
Arguments == {"ls"}
ToolOutcomes == {"ok", "fail", "raise"}

\* the call as it ends when nothing is returned: the exception leaves execute
Raised == [raised |-> TRUE, success |-> FALSE, output |-> <<>>, error |-> <<>>]

ToolResult(success, output, error) ==
    [raised |-> FALSE, success |-> success, output |-> output, error |-> error]

\* ToolRegistry.execute without the except branch
execute_no_except(name, outcome) ==
    IF name \notin RegisteredTools
    THEN ToolResult(FALSE, <<>>, <<P("not_found")>>)
    ELSE CASE outcome = "ok"    -> ToolResult(TRUE, <<P("found")>>, <<>>)
           [] outcome = "fail"  -> ToolResult(FALSE, <<>>, <<P("boom")>>)
           [] outcome = "raise" -> Raised

\* ToolRegistry.execute of a tool that returns a result ("ok"), returns a failed
\* result with the error "boom" ("fail"), or raises Exception("boom") ("raise")
execute(name, outcome) ==
    IF name \notin RegisteredTools
    THEN ToolResult(FALSE, <<>>, <<P("not_found")>>)
    ELSE CASE outcome = "ok"    -> ToolResult(TRUE, <<P("found")>>, <<>>)
           [] outcome = "fail"  -> ToolResult(FALSE, <<>>, <<P("boom")>>)
           [] outcome = "raise" -> ToolResult(FALSE, <<>>, <<P("boom")>>)

\* ToolRegistry.execute followed by the loop's choice of result_text
execute_result_text(name, outcome) ==
    LET result == execute(name, outcome)
    IN  IF result.success THEN result.output ELSE <<P("Error: ")>> \o result.error

\* tool_calls of a response: 1..MaxCalls calls with fresh ids first+1, first+2, ...
ToolCallSeqs(first) ==
    UNION { { [i \in 1..n |-> [id |-> first + i, name |-> names[i], arguments |-> args[i]]] :
                names \in [1..n -> ToolNames], args \in [1..n -> Arguments] } :
            n \in 1..MaxCalls }

NoResponse == [content |-> <<>>, tool_calls |-> <<>>]

NoTurn == [start_len |-> 0, user |-> <<>>, responses |-> <<>>, compacted |-> FALSE,
           truncated |-> FALSE, reply |-> <<>>, outcome |-> "none"]

DangerousCount(calls) ==
    Cardinality({i \in 1..Len(calls) : get_risk_level(calls[i].name) = "dangerous"})

\* SessionManager.process_message around the agent's turn: the user row and the
\* assistant row, committed after the agent returned
commit_turn(rs, content, response_text) ==
    rs \o << [role |-> "user", content |-> content],
             [role |-> "assistant", content |-> response_text] >>

(***************************************************************************)
(* Agent.process_message (agent/core.py), one action per stretch between   *)
(* awaits; p is the caller                                                 *)
(***************************************************************************)
\* Entry: _maybe_compact up to the summary call (or past it when no summary is
\* needed), then add_user_message.
BeginTurn(p, text) ==
    /\ pc[p] = "idle"
    /\ turns < MaxTurns
    /\ turns' = turns + 1
    /\ cur_turn' = [cur_turn EXCEPT ![p] = turns + 1]
    /\ iteration' = [iteration EXCEPT ![p] = 0]
    /\ response' = [response EXCEPT ![p] = NoResponse]
    /\ tc_idx' = [tc_idx EXCEPT ![p] = 0]
    /\ gateway_calls' = [gateway_calls EXCEPT ![p] = 0]
    /\ LET plan == compaction_plan(messages, TRUE)
       IN  IF estimate_tokens(messages) >= threshold_tokens /\ plan.replace
           THEN /\ snapshot' = [snapshot EXCEPT ![p] = plan]
                /\ pc' = [pc EXCEPT ![p] = "summarize"]
                /\ turn_info' = [turn_info EXCEPT ![p] = [NoTurn EXCEPT !.user = text]]
                /\ UNCHANGED <<messages, compaction_count>>
           ELSE /\ messages' = Append(messages, UserMessage(text, turns + 1))
                /\ compaction_count' =
                      IF estimate_tokens(messages) >= threshold_tokens
                      THEN compaction_count + 1 ELSE compaction_count
                /\ pc' = [pc EXCEPT ![p] = "loop"]
                /\ turn_info' = [turn_info EXCEPT ![p] =
                                    [NoTurn EXCEPT !.user = text,
                                                   !.start_len = Len(messages)]]
                /\ UNCHANGED snapshot
    /\ last_op' = NoOp
    /\ UNCHANGED <<sideVars, rows, gateVars, now, waiters, schedVars, executed, approvals_created,
                   next_tc>>

\* _generate_summary returns (ok) or raises (fallback summary); the log is
\* replaced, compaction_count incremented, and the user message appended.
SummaryDone(p, ok) ==
    /\ pc[p] = "summarize"
    /\ LET summary == IF ok THEN <<P("summary")>> ELSE <<P("fallback")>>
           compacted == compacted_messages(snapshot[p], summary)
       IN  /\ messages' = Append(compacted, UserMessage(turn_info[p].user, cur_turn[p]))
           /\ turn_info' = [turn_info EXCEPT ![p].start_len = Len(compacted),
                                             ![p].compacted = TRUE]
    /\ compaction_count' = compaction_count + 1
    /\ gateway_calls' = [gateway_calls EXCEPT ![p] = @ + 1]
    /\ snapshot' = [snapshot EXCEPT ![p] = NoPlan]
    /\ pc' = [pc EXCEPT ![p] = "loop"]
    /\ last_op' = NoOp
    /\ UNCHANGED <<sideVars, rows, iteration, response, tc_idx, gateVars, now, waiters, schedVars,
                   turns, cur_turn, executed, approvals_created, next_tc>>

\* GenerateRaises without the except branch: the exception leaves the turn
GenerateRaises_propagates(p) ==
    /\ pc[p] = "loop"
    /\ iteration[p] < max_tool_iterations
    /\ iteration' = [iteration EXCEPT ![p] = @ + 1]
    /\ gateway_calls' = [gateway_calls EXCEPT ![p] = @ + 1]
    /\ turn_info' = [turn_info EXCEPT ![p].outcome = "error"]
    /\ pc' = [pc EXCEPT ![p] = "idle"]
    /\ last_op' = NoOp
    /\ UNCHANGED <<sideVars, rows, messages, compaction_count, response, tc_idx, snapshot, gateVars, now,
                   waiters, schedVars, turns, cur_turn, executed, approvals_created,
                   next_tc>>

\* GenerateRaises with the except branch changed to try the call again
GenerateRaises_retry(p) ==
    /\ pc[p] = "loop"
    /\ gateway_calls' = [gateway_calls EXCEPT ![p] = @ + 1]
    /\ last_op' = NoOp
    /\ UNCHANGED <<sideVars, rows, messages, compaction_count, pc, iteration, response, tc_idx, snapshot,
                   gateVars, now, waiters, schedVars, turns, cur_turn, executed,
                   approvals_created, next_tc, turn_info>>

\* llm.generate raises: one assistant message with the error text, return it.
GenerateRaises(p) ==
    /\ pc[p] = "loop"
    /\ iteration[p] < max_tool_iterations
    /\ iteration' = [iteration EXCEPT ![p] = @ + 1]
    /\ gateway_calls' = [gateway_calls EXCEPT ![p] = @ + 1]
    /\ LET error_msg == <<P("llm_error_prefix"), P("api_error")>>
       IN  /\ messages' = Append(messages, AssistantMessage(error_msg, <<>>, cur_turn[p]))
           /\ turn_info' = [turn_info EXCEPT ![p].reply = error_msg,
                                             ![p].outcome = "error"]
           /\ rows' = commit_turn(rows, turn_info[p].user, error_msg)
    /\ pc' = [pc EXCEPT ![p] = "idle"]
    /\ last_op' = NoOp
    /\ UNCHANGED <<sideVars, compaction_count, response, tc_idx, snapshot, gateVars, now, waiters,
                   schedVars, turns, cur_turn, executed, approvals_created, next_tc>>

\* llm.generate returns a response without tool calls: append, truncate, return.
GenerateText(p, content) ==
    /\ pc[p] = "loop"
    /\ iteration[p] < max_tool_iterations
    /\ iteration' = [iteration EXCEPT ![p] = @ + 1]
    /\ gateway_calls' = [gateway_calls EXCEPT ![p] = @ + 1]
    /\ response' = [response EXCEPT ![p] = [content |-> content, tool_calls |-> <<>>]]
    /\ LET appended == Append(messages, AssistantMessage(content, <<>>, cur_turn[p]))
       IN  /\ messages' = truncate(appended, max_context_messages)
           /\ turn_info' = [turn_info EXCEPT
                               ![p].reply = content,
                               ![p].outcome = "text",
                               ![p].responses = Append(@, response'[p]),
                               ![p].truncated = (messages' # appended)]
    /\ rows' = commit_turn(rows, turn_info[p].user, content)
    /\ pc' = [pc EXCEPT ![p] = "idle"]
    /\ last_op' = NoOp
    /\ UNCHANGED <<sideVars, compaction_count, tc_idx, snapshot, gateVars, now, waiters,
                   schedVars, turns, cur_turn, executed, approvals_created, next_tc>>

\* llm.generate returns tool calls: append the assistant message carrying them.
GenerateToolCalls(p, content, calls) ==
    /\ pc[p] = "loop"
    /\ iteration[p] < max_tool_iterations
    /\ next_tc + Len(calls) <= MaxToolCalls
    /\ approval_required => approvals_created + DangerousCount(calls) <= MaxApprovals
    /\ iteration' = [iteration EXCEPT ![p] = @ + 1]
    /\ gateway_calls' = [gateway_calls EXCEPT ![p] = @ + 1]
    /\ response' = [response EXCEPT ![p] = [content |-> content, tool_calls |-> calls]]
    /\ next_tc' = next_tc + Len(calls)
    /\ messages' = Append(messages, AssistantMessage(content, calls, cur_turn[p]))
    /\ turn_info' = [turn_info EXCEPT ![p].responses = Append(@, response'[p])]
    /\ tc_idx' = [tc_idx EXCEPT ![p] = 1]
    /\ pc' = [pc EXCEPT ![p] = "tools"]
    /\ last_op' = NoOp
    /\ UNCHANGED <<sideVars, rows, compaction_count, snapshot, gateVars, now, waiters, schedVars,
                   turns, cur_turn, executed, approvals_created>>

\* AdvanceToolCall with the for loop left after its first tool call
AdvanceToolCall_first_only(p) ==
    /\ tc_idx' = [tc_idx EXCEPT ![p] = 0]
    /\ pc' = [pc EXCEPT ![p] = "loop"]

\* After the tool call at tc_idx: the next call of the response, or the loop head
AdvanceToolCall(p) ==
    IF tc_idx[p] < Len(response[p].tool_calls)
    THEN /\ tc_idx' = [tc_idx EXCEPT ![p] = @ + 1]
         /\ pc' = pc
    ELSE /\ tc_idx' = [tc_idx EXCEPT ![p] = 0]
         /\ pc' = [pc EXCEPT ![p] = "loop"]

\* A tool call that needs approval: create the request, append the
\* approval-pending tool result, continue with the next call.
ToolNeedsApproval(p) ==
    /\ pc[p] = "tools"
    /\ LET tool_call == response[p].tool_calls[tc_idx[p]]
           id == approvals_created + 1
       IN  /\ needs_approval(tool_call.name)
           /\ create_approval_request(id, tool_call.name, tool_call.arguments)
           /\ messages' = Append(messages,
                 ToolResultMessage(tool_call.id, ApprovalText(id), tool_call.name,
                                   cur_turn[p]))
    /\ AdvanceToolCall(p)
    /\ last_op' = NoOp
    /\ UNCHANGED <<sideVars, rows, compaction_count, iteration, response, snapshot, approval_required,
                   now, waiters, schedVars, turns, cur_turn, gateway_calls, executed,
                   next_tc, turn_info>>

\* ToolExecute with a failed call dispatched again instead of answered
ToolExecute_retry(p, outcome) ==
    /\ pc[p] = "tools"
    /\ LET tool_call == response[p].tool_calls[tc_idx[p]]
       IN  /\ ~needs_approval(tool_call.name)
           /\ executed' = Append(executed, tool_call)
           /\ IF outcome = "ok"
              THEN /\ messages' = Append(messages,
                         ToolResultMessage(tool_call.id,
                                           execute_result_text(tool_call.name, outcome),
                                           tool_call.name, cur_turn[p]))
                   /\ AdvanceToolCall(p)
              ELSE UNCHANGED <<messages, tc_idx, pc>>
    /\ last_op' = NoOp
    /\ UNCHANGED <<sideVars, rows, compaction_count, iteration, response, snapshot, gateVars, now,
                   waiters, schedVars, turns, cur_turn, gateway_calls,
                   approvals_created, next_tc, turn_info>>

\* A tool call that needs no approval: ToolRegistry.execute, append its result.
ToolExecute(p, outcome) ==
    /\ pc[p] = "tools"
    /\ LET tool_call == response[p].tool_calls[tc_idx[p]]
       IN  /\ ~needs_approval(tool_call.name)
           /\ executed' = Append(executed, tool_call)
           /\ messages' = Append(messages,
                 ToolResultMessage(tool_call.id,
                                   execute_result_text(tool_call.name, outcome),
                                   tool_call.name, cur_turn[p]))
    /\ AdvanceToolCall(p)
    /\ last_op' = NoOp
    /\ UNCHANGED <<sideVars, rows, compaction_count, iteration, response, snapshot, gateVars, now,
                   waiters, schedVars, turns, cur_turn, gateway_calls,
                   approvals_created, next_tc, turn_info>>

\* The while condition fails: append the iteration-cap message and return it.
IterationCap(p) ==
    /\ pc[p] = "loop"
    /\ ~(iteration[p] < max_tool_iterations)
    /\ LET timeout_msg == IF response[p].content # <<>>
                          THEN response[p].content \o <<P("sep")>> \o TimeoutText
                          ELSE TimeoutText
       IN  /\ messages' = Append(messages, AssistantMessage(timeout_msg, <<>>, cur_turn[p]))
           /\ turn_info' = [turn_info EXCEPT ![p].reply = timeout_msg,
                                             ![p].outcome = "cap"]
           /\ rows' = commit_turn(rows, turn_info[p].user, timeout_msg)
    /\ pc' = [pc EXCEPT ![p] = "idle"]
    /\ last_op' = NoOp
    /\ UNCHANGED <<sideVars, compaction_count, iteration, response, tc_idx, snapshot, gateVars,
                   now, waiters, schedVars, turns, cur_turn, gateway_calls, executed,
                   approvals_created, next_tc>>

\* The steps of caller p's turn
TurnStep(p) ==
    \/ \E ok \in BOOLEAN : SummaryDone(p, ok)
    \/ GenerateRaises(p)
    \/ \E content \in {<<P("text")>>} : GenerateText(p, content)
    \/ \E content \in {<<>>, <<P("text")>>}, calls \in ToolCallSeqs(next_tc) :
          GenerateToolCalls(p, content, calls)
    \/ ToolNeedsApproval(p)
    \/ \E outcome \in ToolOutcomes : ToolExecute(p, outcome)
    \/ IterationCap(p)

UserTexts == {<<P("hi")>>}

(***************************************************************************)
(* The transport's /approve, /deny and /pending commands                   *)
(***************************************************************************)
\* event.set() in approve and deny: every caller suspended on the event of id
\* becomes ready to resume
Wake(id, how) ==
    [w \in DOMAIN waiters |->
        IF waiters[w].state = "waiting" /\ waiters[w].id = id
        THEN [waiters[w] EXCEPT !.state = "woken", !.why = how]
        ELSE waiters[w]]

Approve(id) ==
    /\ approve(id)
    /\ waiters' = IF ApproveOk(id) THEN Wake(id, "approved") ELSE waiters
    /\ UNCHANGED <<sideVars, agentVars, now, schedVars, histVars>>

Deny(id) ==
    /\ deny(id)
    /\ waiters' = IF ApproveOk(id) THEN Wake(id, "denied") ELSE waiters
    /\ UNCHANGED <<sideVars, agentVars, now, schedVars, histVars>>

ListPending ==
    /\ list_pending
    /\ UNCHANGED <<sideVars, agentVars, now, waiters, schedVars, histVars>>

\* a tool call parked outside a turn in progress (the gate on its own)
CreateApprovalRequest(tool_name, arguments) ==
    /\ approvals_created < MaxApprovals
    /\ create_approval_request(approvals_created + 1, tool_name, arguments)
    /\ last_op' = NoOp
    /\ UNCHANGED <<sideVars, agentVars, approval_required, now, waiters, schedVars, turns,
                   cur_turn, gateway_calls, executed, next_tc, turn_info>>

\* a minute passes
Tick(limit) ==
    /\ now < limit
    /\ now' = now + 1
    /\ last_op' = NoOp
    /\ UNCHANGED <<sideVars, agentVars, gateVars, waiters, schedVars, histVars>>

\* wait_for_approval up to its await: no event, return False; event already
\* set, read the outcome at once; else suspend until the event or the timeout
WaitStart(w, id, timeout) ==
    /\ waiters[w].state = "none"
    /\ waiters' = [waiters EXCEPT ![w] =
          IF id \notin DOMAIN approval_events
          THEN [state |-> "done", id |-> NoId, deadline |-> 0, why |-> "no_event",
                result |-> FALSE]
          ELSE IF approval_events[id]
          THEN [state |-> "done", id |-> NoId, deadline |-> 0, why |-> "late",
                result |-> IF id \in DOMAIN pending THEN pending[id].approved ELSE FALSE]
          ELSE [state |-> "waiting", id |-> id, deadline |-> now + timeout,
                why |-> "none", result |-> FALSE]]
    /\ last_op' = NoOp
    /\ UNCHANGED <<sideVars, agentVars, gateVars, now, schedVars, histVars>>

\* asyncio.TimeoutError: return False
WaitTimeout(w) ==
    /\ waiters[w].state = "waiting"
    /\ now >= waiters[w].deadline
    /\ waiters' = [waiters EXCEPT ![w] = [NoWait EXCEPT !.state = "done",
                                                         !.why = "timeout"]]
    /\ last_op' = NoOp
    /\ UNCHANGED <<sideVars, agentVars, gateVars, now, schedVars, histVars>>

\* the woken caller resumes: _pending.get(id), approved if still there
WaitReturn(w) ==
    /\ waiters[w].state = "woken"
    /\ waiters' = [waiters EXCEPT ![w] =
          [NoWait EXCEPT
              !.state = "done",
              !.why = waiters[w].why,
              !.result = IF waiters[w].id \in DOMAIN pending
                         THEN pending[waiters[w].id].approved ELSE FALSE]]
    /\ last_op' = NoOp
    /\ UNCHANGED <<sideVars, agentVars, gateVars, now, schedVars, histVars>>

(***************************************************************************)
(* Scheduler (scheduler/scheduler.py)                                      *)
(***************************************************************************)
TaskIds == 1..MaxTasks
NoHours == <<>>
Hour(t) == t % 24

\* ScheduledTask._calculate_next_run: croniter's next time after now, moved on
\* while outside active_hours; None without a cron expression
RECURSIVE NextInHours(_, _, _)
NextInHours(t, period, hours) ==
    IF hours = NoHours \/ (hours[1] <= Hour(t) /\ Hour(t) < hours[2]) THEN t
    ELSE NextInHours(t + period, period, hours)

calculate_next_run(task) ==
    IF task.cron_expression = NoCron THEN NoTime
    ELSE NextInHours(now + task.cron_expression - (now % task.cron_expression),
                     task.cron_expression, task.active_hours)

\* ScheduledTask.__post_init__
post_init(task) ==
    IF task.cron_expression # NoCron /\ task.next_run = NoTime
    THEN [task EXCEPT !.next_run = calculate_next_run(task)]
    ELSE IF task.scheduled_time # NoTime /\ task.next_run = NoTime
    THEN [task EXCEPT !.next_run = task.scheduled_time]
    ELSE task

\* the dataclass constructor with its defaults, then __post_init__
ScheduledTask(id, task_type, cron_expression, scheduled_time, active_hours) ==
    post_init([id |-> id, task_type |-> task_type, cron_expression |-> cron_expression,
               scheduled_time |-> scheduled_time, active_hours |-> active_hours,
               enabled |-> TRUE, last_run |-> NoTime, next_run |-> NoTime])

\* should_run without its active_hours check
should_run_no_window(task) ==
    IF ~task.enabled THEN FALSE
    ELSE IF task.next_run = NoTime THEN FALSE
    ELSE now >= task.next_run

should_run(task) ==
    IF ~task.enabled THEN FALSE
    ELSE IF task.next_run = NoTime THEN FALSE
    ELSE IF task.active_hours # NoHours
            /\ ~(task.active_hours[1] <= Hour(now) /\ Hour(now) < task.active_hours[2])
    THEN FALSE
    ELSE now >= task.next_run

mark_completed(task) ==
    LET ran == [task EXCEPT !.last_run = now]
    IN  IF task.task_type \in {"one_time", "reminder"}
        THEN [ran EXCEPT !.enabled = FALSE, !.next_run = NoTime]
        ELSE IF task.cron_expression # NoCron
        THEN [ran EXCEPT !.next_run = calculate_next_run(task)]
        ELSE ran

\* datetime.isoformat / datetime.fromisoformat, None kept apart
IsoFormat(t) == IF t = NoTime THEN [null |-> TRUE] ELSE [iso |-> t]
FromIso(v) == IF v = [null |-> TRUE] THEN NoTime ELSE v.iso

to_dict(task) ==
    [id |-> task.id, task_type |-> task.task_type,
     cron_expression |-> task.cron_expression,
     scheduled_time |-> IsoFormat(task.scheduled_time),
     active_hours |-> task.active_hours, enabled |-> task.enabled,
     last_run |-> IsoFormat(task.last_run), next_run |-> IsoFormat(task.next_run)]

from_dict(data) ==
    post_init([id |-> data.id, task_type |-> data.task_type,
               cron_expression |-> data.cron_expression,
               scheduled_time |-> FromIso(data.scheduled_time),
               active_hours |-> data.active_hours, enabled |-> data.enabled,
               last_run |-> FromIso(data.last_run), next_run |-> FromIso(data.next_run)])

\* the file after write_text has opened (truncated) it and before the document
\* is written out whole: text that json.loads rejects
PartialFile == [id \in {NoId} |-> [truncated |-> TRUE]]

\* _save_tasks: the file written from a tasks dict; _load_tasks: the dict read,
\* left empty when reading the file raises
save_tasks(ts) == [id \in DOMAIN ts |-> to_dict(ts[id])]
load_tasks(file) ==
    IF file = PartialFile THEN <<>>
    ELSE [id \in DOMAIN file |-> from_dict(file[id])]

\* ids in dict order (insertion order: ascending)
RECURSIVE InOrder(_)
InOrder(S) ==
    IF S = {} THEN <<>>
    ELSE LET m == CHOOSE x \in S : \A y \in S : x <= y
         IN  <<m>> \o InOrder(S \ {m})

get_due_tasks == InOrder({id \in DOMAIN tasks : should_run(tasks[id])})

NoLoop == [state |-> "none", cur |-> NoId, rest |-> <<>>, due |-> <<>>,
           passed |-> <<>>, outcomes |-> <<>>]
Sleeping == [NoLoop EXCEPT !.state = "sleeping"]

\* add_one_time_task, add_reminder (scheduled_time = now + delay), add_cron_task
\* (with or without active_hours)
AddTask(task_type, cron_expression, scheduled_time, active_hours) ==
    /\ Cardinality(DOMAIN fired) < MaxTasks
    /\ LET id == Cardinality(DOMAIN fired) + 1
       IN  /\ tasks' = Put(tasks, id, ScheduledTask(id, task_type, cron_expression,
                                                     scheduled_time, active_hours))
           /\ fired' = Put(fired, id, 0)
    /\ tasks_file' = save_tasks(tasks')
    /\ last_op' = NoOp
    /\ UNCHANGED <<sideVars, agentVars, gateVars, now, waiters, running, loop, stops, histVars>>

\* _run_loop wakes: get_due_tasks, and the first due task goes to the callback
RunDue ==
    /\ running
    /\ loop.state = "sleeping"
    /\ get_due_tasks # <<>>
    /\ loop' = [state |-> "callback", cur |-> Head(get_due_tasks),
                rest |-> Tail(get_due_tasks), due |-> get_due_tasks,
                passed |-> <<Head(get_due_tasks)>>, outcomes |-> <<>>]
    /\ fired' = [fired EXCEPT ![Head(get_due_tasks)] = @ + 1]
    /\ last_op' = NoOp
    /\ UNCHANGED <<sideVars, agentVars, gateVars, now, waiters, tasks, tasks_file, running, stops,
                   histVars>>

\* CallbackDone with mark_completed and _save_tasks moved into the try block,
\* so that a raising callback skips them
CallbackDone_raise_skips(outcome) ==
    /\ loop.state = "callback"
    /\ tasks' = IF outcome = "raised" THEN tasks
                ELSE [tasks EXCEPT ![loop.cur] = mark_completed(@)]
    /\ tasks_file' = save_tasks(tasks')
    /\ IF loop.rest # <<>>
       THEN /\ loop' = [loop EXCEPT !.cur = Head(loop.rest), !.rest = Tail(loop.rest),
                                    !.passed = Append(@, Head(loop.rest)),
                                    !.outcomes = Append(@, outcome)]
            /\ fired' = [fired EXCEPT ![Head(loop.rest)] = @ + 1]
       ELSE /\ loop' = [loop EXCEPT !.state = "sleeping", !.cur = NoId,
                                    !.outcomes = Append(@, outcome)]
            /\ fired' = fired
    /\ last_op' = NoOp
    /\ UNCHANGED <<sideVars, agentVars, gateVars, now, waiters, running, stops, histVars>>

\* the callback returns or raises an Exception (logged): mark_completed,
\* _save_tasks, then the next due task goes to the callback, or sleep
CallbackDone(outcome) ==
    /\ loop.state = "callback"
    /\ tasks' = IF loop.cur \in DOMAIN tasks
                THEN [tasks EXCEPT ![loop.cur] = mark_completed(@)]
                ELSE tasks
    /\ tasks_file' = save_tasks(tasks')
    /\ IF loop.rest # <<>>
       THEN /\ loop' = [loop EXCEPT !.cur = Head(loop.rest), !.rest = Tail(loop.rest),
                                    !.passed = Append(@, Head(loop.rest)),
                                    !.outcomes = Append(@, outcome)]
            /\ fired' = [fired EXCEPT ![Head(loop.rest)] = @ + 1]
       ELSE /\ loop' = [loop EXCEPT !.state = "sleeping", !.cur = NoId,
                                    !.outcomes = Append(@, outcome)]
            /\ fired' = fired
    /\ last_op' = NoOp
    /\ UNCHANGED <<sideVars, agentVars, gateVars, now, waiters, running, stops, histVars>>

\* Scheduler.start
Start ==
    /\ ~running
    /\ running' = TRUE
    /\ loop' = Sleeping
    /\ last_op' = NoOp
    /\ UNCHANGED <<sideVars, agentVars, gateVars, now, waiters, tasks, tasks_file, stops, fired,
                   histVars>>

\* Scheduler.stop: the loop's task is cancelled where it is suspended, in the
\* callback (CancelledError passes the except Exception) or in the sleep
Stop ==
    /\ running
    /\ stops < MaxStops
    /\ stops' = stops + 1
    /\ running' = FALSE
    /\ loop' = NoLoop
    /\ last_op' = NoOp
    /\ UNCHANGED <<sideVars, agentVars, gateVars, now, waiters, tasks, tasks_file, fired, histVars>>

\* a new process after a shutdown: Scheduler.__init__ loads the file, lifespan
\* starts the loop
Restart ==
    /\ ~running
    /\ tasks' = load_tasks(tasks_file)
    /\ running' = TRUE
    /\ loop' = Sleeping
    /\ last_op' = NoOp
    /\ UNCHANGED <<sideVars, agentVars, gateVars, now, waiters, tasks_file, stops, fired, histVars>>

\* an add_* call of the process that is alive
AddTaskRunning(task_type, cron_expression, scheduled_time, active_hours) ==
    /\ running
    /\ AddTask(task_type, cron_expression, scheduled_time, active_hours)

\* an add_* call whose process is killed inside _save_tasks, after write_text
\* has opened the file and before the document is written out
AddTaskCrash(task_type, cron_expression, scheduled_time, active_hours) ==
    /\ running
    /\ stops < MaxStops
    /\ Cardinality(DOMAIN fired) < MaxTasks
    /\ LET id == Cardinality(DOMAIN fired) + 1
       IN  /\ tasks' = Put(tasks, id, ScheduledTask(id, task_type, cron_expression,
                                                     scheduled_time, active_hours))
           /\ fired' = Put(fired, id, 0)
    /\ tasks_file' = PartialFile
    /\ stops' = stops + 1
    /\ running' = FALSE
    /\ loop' = NoLoop
    /\ last_op' = NoOp
    /\ UNCHANGED <<sideVars, agentVars, gateVars, now, waiters, histVars>>

\* Scheduler.remove_task on the Scheduler that runs the loop
RemoveTask(task_id) ==
    /\ IF task_id \in DOMAIN tasks
       THEN /\ tasks' = Drop(tasks, {task_id})
            /\ tasks_file' = save_tasks(tasks')
            /\ removed' = removed \cup {task_id}
            /\ last_op' = [op |-> "remove_task", id |-> task_id, result |-> TRUE]
       ELSE /\ UNCHANGED <<tasks, tasks_file, removed>>
            /\ last_op' = [op |-> "remove_task", id |-> task_id, result |-> FALSE]
    /\ UNCHANGED <<tools, risk_map, rateVars, tool_scheduler, restVars, agentVars, gateVars,
                   now, waiters, running, loop, stops, fired, histVars>>

(***************************************************************************)
(* ScheduledTask._calculate_next_run step by step: the while loop over     *)
(* the cron times; of a cron time only the hour of the day is kept         *)
(***************************************************************************)
\* start_hour <= next_time.hour < end_hour
HourInside(hour, active_hours) ==
    active_hours[1] <= hour /\ hour < active_hours[2]

\* add_cron_task with active_hours: the constructor runs __post_init__, which
\* enters _calculate_next_run: cron.get_next gives the first cron time after now
CronStart(cron_expression, active_hours) ==
    /\ cron_scan.state # "scanning"
    /\ cron_scan' = [state |-> "scanning",
                     hour |-> Hour(now + cron_expression - (now % cron_expression)),
                     cron_expression |-> cron_expression,
                     active_hours |-> active_hours]
    /\ last_op' = NoOp
    /\ UNCHANGED <<tools, risk_map, rateVars, toolSchedVars, sessionVars, agentVars,
                   gateVars, now, waiters, schedVars, histVars>>

\* the loop condition holds: next_time = cron.get_next(datetime)
CronNext ==
    /\ cron_scan.state = "scanning"
    /\ ~HourInside(cron_scan.hour, cron_scan.active_hours)
    /\ cron_scan' = [cron_scan EXCEPT !.hour = Hour(@ + cron_scan.cron_expression)]
    /\ last_op' = NoOp
    /\ UNCHANGED <<tools, risk_map, rateVars, toolSchedVars, sessionVars, agentVars,
                   gateVars, now, waiters, schedVars, histVars>>

\* the loop condition fails: return next_time
CronReturn ==
    /\ cron_scan.state = "scanning"
    /\ HourInside(cron_scan.hour, cron_scan.active_hours)
    /\ cron_scan' = [cron_scan EXCEPT !.state = "returned"]
    /\ last_op' = NoOp
    /\ UNCHANGED <<tools, risk_map, rateVars, toolSchedVars, sessionVars, agentVars,
                   gateVars, now, waiters, schedVars, histVars>>

(***************************************************************************)
(* SessionManager (agent/session.py) for one user; a session's id is its   *)
(* place in the table, a message is named by its number                    *)
(***************************************************************************)
\* update handlers that may run at the same time (webhook requests)
Handlers == {1, 2}
IdleHandler == [pc |-> "idle", kind |-> "none", msg |-> 0, session |-> NoId,
                old |-> {}, idle |-> FALSE]

\* Session.is_active == True and Session.updated_at > cutoff
LiveSessions ==
    {sid \in DOMAIN sessions :
        sessions[sid].is_active /\ sessions[sid].updated_at > now - session_timeout_hours}

\* order_by(updated_at.desc()).limit(1): the rows the query may return
MostRecent ==
    {sid \in LiveSessions :
        \A other \in LiveSessions : sessions[other].updated_at <= sessions[sid].updated_at}

\* every message stored for the user
StoredMessages ==
    UNION {{sessions[sid].messages[i] : i \in 1..Len(sessions[sid].messages)} :
              sid \in DOMAIN sessions}

\* get_or_create_session up to the result of its select, for an update that is
\* a message or /clear: the session found, or None
GetOrCreateSelect(h, kind) ==
    /\ handler[h].pc = "idle"
    /\ inbound < MaxInbound
    /\ inbound' = inbound + 1
    /\ \E found \in (IF MostRecent = {} THEN {NoId} ELSE MostRecent) :
          handler' = [handler EXCEPT ![h] =
             [pc |-> IF found = NoId THEN "selected" ELSE "resolved",
              kind |-> kind, msg |-> inbound + 1, session |-> found,
              old |-> cleared,
              idle |-> /\ sessions # <<>>
                       /\ \A sid \in DOMAIN sessions :
                             now - sessions[sid].updated_at > session_timeout_hours]]
    /\ last_op' = NoOp
    /\ UNCHANGED <<tools, risk_map, rateVars, toolSchedVars, cron_scan, sessions, contexts,
                   cleared, agentVars, gateVars, now, waiters, schedVars, histVars>>

\* session is None: Session(...), db.add, commit, refresh
GetOrCreateInsert(h) ==
    /\ handler[h].pc = "selected"
    /\ sessions' = Append(sessions, [is_active |-> TRUE, updated_at |-> now,
                                     messages |-> <<>>])
    /\ handler' = [handler EXCEPT ![h].pc = "resolved", ![h].session = Len(sessions) + 1]
    /\ last_op' = NoOp
    /\ UNCHANGED <<tools, risk_map, rateVars, toolSchedVars, cron_scan, contexts, inbound,
                   cleared, agentVars, gateVars, now, waiters, schedVars, histVars>>

\* get_context: the cached conversation of the session, else its stored messages
session_context(sid) ==
    IF sid \in DOMAIN contexts THEN contexts[sid] ELSE sessions[sid].messages

\* process_message after get_or_create_session: get_context, the agent's turn,
\* the two Message rows, updated_at, commit, the context cached
ProcessMessage(h) ==
    /\ handler[h].pc = "resolved"
    /\ handler[h].kind = "message"
    /\ LET sid == handler[h].session
           context == session_context(sid)
       IN  /\ sessions' = [sessions EXCEPT ![sid].messages = Append(@, handler[h].msg),
                                           ![sid].updated_at = now]
           /\ contexts' = Put(contexts, sid, Append(context, handler[h].msg))
           /\ last_op' = [op |-> "process_message", id |-> sid, result |-> TRUE,
                          listed |-> {}, context |-> context,
                          old |-> handler[h].old, idle |-> handler[h].idle]
    /\ handler' = [handler EXCEPT ![h] = IdleHandler]
    /\ UNCHANGED <<tools, risk_map, rateVars, toolSchedVars, cron_scan, inbound, cleared,
                   agentVars, gateVars, now, waiters, schedVars, histVars>>

\* clear_session after get_or_create_session: is_active = False, commit, the
\* cached context deleted
ClearSession(h) ==
    /\ handler[h].pc = "resolved"
    /\ handler[h].kind = "clear"
    /\ LET sid == handler[h].session
       IN  /\ sessions' = [sessions EXCEPT ![sid].is_active = FALSE,
                                           ![sid].updated_at = now]
           /\ contexts' = Drop(contexts, {sid})
           /\ last_op' = [op |-> "clear_session", id |-> sid, result |-> TRUE,
                          listed |-> {}]
    /\ cleared' = cleared \cup StoredMessages
    /\ handler' = [handler EXCEPT ![h] = IdleHandler]
    /\ UNCHANGED <<tools, risk_map, rateVars, toolSchedVars, cron_scan, inbound,
                   agentVars, gateVars, now, waiters, schedVars, histVars>>

(***************************************************************************)
(* Scheduler tools (tools/scheduler_tool.py): they work on their own        *)
(* Scheduler, made by get_scheduler at the first call                      *)
(***************************************************************************)
\* get_scheduler: the singleton, constructed (and loaded from the task file)
\* when it is None
get_scheduler ==
    IF tool_scheduler.created THEN tool_scheduler
    ELSE [created |-> TRUE, tasks |-> load_tasks(tasks_file)]

\* set_reminder_handler (reminder, scheduled_time = now + delay) and
\* add_cron_task_handler: add_reminder / add_cron_task on get_scheduler()
ToolAddTask(task_type, cron_expression, scheduled_time, active_hours) ==
    /\ Cardinality(DOMAIN fired) < MaxTasks
    /\ LET id == Cardinality(DOMAIN fired) + 1
           scheduler == get_scheduler
       IN  /\ tool_scheduler' =
                  [scheduler EXCEPT !.tasks =
                      Put(@, id, ScheduledTask(id, task_type, cron_expression,
                                               scheduled_time, active_hours))]
           /\ fired' = Put(fired, id, 0)
           /\ last_op' = [op |-> "tool_add_task", id |-> id, result |-> TRUE]
    /\ tasks_file' = save_tasks(tool_scheduler'.tasks)
    /\ UNCHANGED <<tools, risk_map, rateVars, removed, restVars, agentVars, gateVars, now,
                   waiters, tasks, running, loop, stops, histVars>>

\* cancel_reminder_handler: remove_task on get_scheduler()
ToolRemoveTask(task_id) ==
    /\ LET scheduler == get_scheduler
       IN  IF task_id \in DOMAIN scheduler.tasks
           THEN /\ tool_scheduler' = [scheduler EXCEPT !.tasks = Drop(@, {task_id})]
                /\ tasks_file' = save_tasks(tool_scheduler'.tasks)
                /\ removed' = removed \cup {task_id}
                /\ last_op' = [op |-> "tool_remove_task", id |-> task_id, result |-> TRUE]
           ELSE /\ tool_scheduler' = scheduler
                /\ UNCHANGED <<tasks_file, removed>>
                /\ last_op' = [op |-> "tool_remove_task", id |-> task_id,
                               result |-> FALSE]
    /\ UNCHANGED <<tools, risk_map, rateVars, restVars, agentVars, gateVars, now, waiters,
                   tasks, running, loop, stops, fired, histVars>>

(***************************************************************************)
(* Rate limiter (telegram/bot.py, telegram/handlers.py)                    *)
(***************************************************************************)
TelegramIds == {1, 2}

\* check_rate_limit with the timestamp appended before the comparison, so
\* that a rejected message is stored too
check_rate_limit_counts_rejected(limits, telegram_id) ==
    LET cur == IF telegram_id \in DOMAIN limits THEN limits[telegram_id] ELSE <<>>
        kept == SelectSeq(cur, LAMBDA t : now - t < RateWindow)
    IN  [allowed |-> Len(kept) < rate_limit_messages,
         rate_limits |-> Put(limits, telegram_id, Append(kept, now))]

\* TelegramBot.check_rate_limit: the value returned and the new _rate_limits
check_rate_limit(limits, telegram_id) ==
    LET cur == IF telegram_id \in DOMAIN limits THEN limits[telegram_id] ELSE <<>>
        kept == SelectSeq(cur, LAMBDA t : now - t < RateWindow)
    IN  IF Len(kept) >= rate_limit_messages
        THEN [allowed |-> FALSE, rate_limits |-> Put(limits, telegram_id, kept)]
        ELSE [allowed |-> TRUE,
              rate_limits |-> Put(limits, telegram_id, Append(kept, now))]

\* message_handler up to process_message: a text update of a user; rejected
\* by the rate limiter it is answered and dropped; a user who is not allowed
\* gets the pairing or no-access reply; else the text goes to
\* session_manager.process_message
MessageHandler(telegram_id, is_allowed) ==
    /\ handled < MaxMessages
    /\ handled' = handled + 1
    /\ LET r == check_rate_limit(rate_limits, telegram_id)
       IN  /\ rate_limits' = r.rate_limits
           /\ admitted' = IF r.allowed
                          THEN [admitted EXCEPT ![telegram_id] = Append(@, now)]
                          ELSE admitted
           /\ entered' = IF r.allowed /\ is_allowed
                         THEN [entered EXCEPT ![telegram_id] = @ + 1]
                         ELSE entered
           /\ last_op' = [op |-> "message", telegram_id |-> telegram_id,
                          allowed |-> r.allowed, is_allowed |-> is_allowed]
    /\ UNCHANGED <<tools, risk_map, moreVars, agentVars, gateVars, now, waiters, schedVars,
                   histVars>>

(***************************************************************************)
(* Spec: one caller, turns one after another, gate commands in between     *)
(***************************************************************************)
\* SessionManager.get_context: a new conversation, or one rebuilt from the
\* persisted rows of a session (role and content only)
PersistedRows ==
    << [role |-> "user", content |-> <<P("fact")>>],
       [role |-> "assistant", content |-> <<P("text")>>],
       [role |-> "user", content |-> <<P("hi")>>],
       [role |-> "assistant", content |-> <<P("text")>>],
       [role |-> "user", content |-> <<P("hi")>>],
       [role |-> "assistant", content |-> <<P("text")>>] >>

get_context(rs) ==
    [i \in 1..Len(rs) |->
        [role |-> rs[i].role, content |-> rs[i].content, tool_calls |-> <<>>,
         tool_call_id |-> NoId, name |-> "", turn |-> 0]]

\* a ConversationContext as constructed, and no turn under way
InitTurnState ==
    /\ compaction_count = 0
    /\ pc = [p \in Procs |-> "idle"]
    /\ iteration = [p \in Procs |-> 0]
    /\ response = [p \in Procs |-> NoResponse]
    /\ tc_idx = [p \in Procs |-> 0]
    /\ snapshot = [p \in Procs |-> NoPlan]
    /\ turns = 0
    /\ cur_turn = [p \in Procs |-> 0]
    /\ gateway_calls = [p \in Procs |-> 0]
    /\ executed = <<>>
    /\ next_tc = 0
    /\ turn_info = [p \in Procs |-> NoTurn]

InitAgent ==
    /\ rows \in {<<>>, PersistedRows}
    /\ messages = get_context(rows)
    /\ InitTurnState

InitTools == tools = DefaultTools

\* scheduler_tool._scheduler is None until a scheduler tool is first called
NoScheduler == [created |-> FALSE, tasks |-> <<>>]

InitToolScheduler ==
    /\ tool_scheduler = NoScheduler
    /\ removed = {}

\* no _calculate_next_run call under way
NoScan == [state |-> "none", hour |-> 0, cron_expression |-> NoCron,
           active_hours |-> <<>>]

\* no session in the table, nothing cached, no update being handled
InitSessions ==
    /\ sessions = <<>>
    /\ contexts = <<>>
    /\ handler = [h \in Handlers |-> IdleHandler]
    /\ inbound = 0
    /\ cleared = {}

InitMore ==
    /\ InitToolScheduler
    /\ cron_scan = NoScan
    /\ InitSessions

\* TelegramBot.__init__: no rate-limit entries, nothing handled
InitRate ==
    /\ rate_limits = <<>>
    /\ admitted = [u \in TelegramIds |-> <<>>]
    /\ entered = [u \in TelegramIds |-> 0]
    /\ handled = 0

InitGate ==
    /\ risk_map = default_risk_map
    /\ pending = <<>>
    /\ approval_events = <<>>
    /\ approvals_created = 0
    /\ now = 0
    /\ waiters = [w \in Waiters |-> NoWait]
    /\ last_op = NoOp

\* lifespan: Scheduler(callback) on an empty task file, started
InitSched ==
    /\ tasks = <<>>
    /\ tasks_file = <<>>
    /\ running = TRUE
    /\ loop = Sleeping
    /\ stops = 0
    /\ fired = <<>>

Init ==
    /\ InitAgent
    /\ InitTools
    /\ InitRate
    /\ InitMore
    /\ InitGate
    /\ InitSched
    /\ approval_required = TRUE

Next ==
    \/ \E text \in UserTexts : BeginTurn(1, text)
    \/ TurnStep(1)
    \/ \E id \in DOMAIN pending : Approve(id)

Spec == Init /\ [][Next]_vars

(***************************************************************************)
(* SpecDeny: turns, with /deny in place of /approve, and the clock         *)
(***************************************************************************)
NextDeny ==
    \/ \E text \in UserTexts : BeginTurn(1, text)
    \/ TurnStep(1)
    \/ \E id \in DOMAIN pending : Deny(id)
    \/ Tick(MaxTime)

SpecDeny == Init /\ [][NextDeny]_vars

(***************************************************************************)
(* SpecSession: the same, and the cached context of the session dropped    *)
(* between turns                                                           *)
(***************************************************************************)
\* evict_context, then the get_context of the next process_message: the session
\* is no longer in _contexts, so a new ConversationContext is built from the rows
ReloadContext ==
    /\ \A p \in Procs : pc[p] = "idle"
    /\ messages' = get_context(rows)
    /\ compaction_count' = 0
    /\ last_op' = NoOp
    /\ UNCHANGED <<sideVars, pc, iteration, response, tc_idx, snapshot, rows, gateVars, now,
                   waiters, schedVars, histVars>>

NextSession ==
    \/ Next
    \/ ReloadContext

SpecSession == Init /\ [][NextSession]_vars

(***************************************************************************)
(* SpecConc: two SessionManager.process_message calls for one session, as  *)
(* two webhook requests start them; both get the one cached context and    *)
(* interleave at their awaits                                              *)
(***************************************************************************)
NextConc ==
    \/ \E p \in Procs, text \in UserTexts : BeginTurn(p, text)
    \/ \E p \in Procs : TurnStep(p)

SpecConc == Init /\ [][NextConc]_vars

(***************************************************************************)
(* SpecGate: the ApprovalManager on its own: requests, the three commands  *)
(* with any id, and the clock                                              *)
(***************************************************************************)
\* a session that has not talked yet
InitQuiet == Init /\ rows = <<>>

NextGate ==
    \/ \E tool_name \in {"run_command"}, arguments \in Arguments :
          CreateApprovalRequest(tool_name, arguments)
    \/ \E id \in ApprovalIds : Approve(id)
    \/ \E id \in ApprovalIds : Deny(id)
    \/ ListPending
    \/ Tick(MaxTime)

SpecGate == InitQuiet /\ [][NextGate]_vars

\* SpecWait: the same with callers of wait_for_approval
NextWait ==
    \/ NextGate
    \/ \E w \in Waiters, id \in ApprovalIds, timeout \in WaitTimeouts :
          WaitStart(w, id, timeout)
    \/ \E w \in Waiters : WaitTimeout(w)
    \/ \E w \in Waiters : WaitReturn(w)

SpecWait == InitQuiet /\ [][NextWait]_vars

\* SpecDecide: the gate and one caller of wait_for_approval over a shorter time
NextDecide ==
    \/ \E tool_name \in {"run_command"}, arguments \in Arguments :
          CreateApprovalRequest(tool_name, arguments)
    \/ \E id \in ApprovalIds : Approve(id)
    \/ \E id \in ApprovalIds : Deny(id)
    \/ ListPending
    \/ Tick(MaxSchedTime)
    \/ \E id \in ApprovalIds, timeout \in WaitTimeouts : WaitStart(1, id, timeout)
    \/ WaitTimeout(1)
    \/ WaitReturn(1)

SpecDecide == InitQuiet /\ [][NextDecide]_vars

(***************************************************************************)
(* SpecSched: the scheduler: tasks added, the clock, the loop, stop, start *)
(* and restart                                                             *)
(***************************************************************************)
NextSched ==
    \/ AddTask("one_time", NoCron, now, NoHours)
    \/ AddTask("reminder", NoCron, now + 1, NoHours)
    \/ AddTask("cron", CronPeriod, NoTime, NoHours)
    \/ Tick(MaxSchedTime)
    \/ RunDue
    \/ \E outcome \in {"returned", "raised"} : CallbackDone(outcome)
    \/ Stop
    \/ Start
    \/ Restart

SpecSched == InitQuiet /\ [][NextSched]_vars

(***************************************************************************)
(* SpecWindow: the scheduler with cron tasks that have an active window    *)
(***************************************************************************)
\* active_hours of the windowed task: the one hour of its first cron time
WindowHours == <<CronPeriod, CronPeriod + 1>>

NextWindow ==
    \/ AddTask("cron", CronPeriod, NoTime, WindowHours)
    \/ AddTask("cron", CronPeriod, NoTime, NoHours)
    \/ AddTask("one_time", NoCron, now, NoHours)
    \/ Tick(MaxSchedTime)
    \/ RunDue
    \/ \E outcome \in {"returned", "raised"} : CallbackDone(outcome)
    \/ Stop
    \/ Start

SpecWindow == InitQuiet /\ [][NextWindow]_vars

(***************************************************************************)
(* SpecTools: the application started on a task file that holds one cron   *)
(* task; the loop of the application's Scheduler, the scheduler tools      *)
(* called by the agent, and the clock                                      *)
(***************************************************************************)
\* the task file left by an earlier run
PersistedTasks == <<ScheduledTask(1, "cron", CronPeriod, NoTime, NoHours)>>

\* lifespan: Scheduler(callback) loads the task file and is started
InitPersisted ==
    /\ rows = <<>>
    /\ messages = get_context(rows)
    /\ InitTurnState
    /\ InitTools
    /\ InitRate
    /\ InitMore
    /\ InitGate
    /\ approval_required = TRUE
    /\ tasks_file = save_tasks(PersistedTasks)
    /\ tasks = load_tasks(tasks_file)
    /\ running = TRUE
    /\ loop = Sleeping
    /\ stops = 0
    /\ fired = <<0>>

NextTools ==
    \/ ToolAddTask("reminder", NoCron, now + 1, NoHours)
    \/ ToolAddTask("cron", CronPeriod, NoTime, NoHours)
    \/ \E task_id \in TaskIds : ToolRemoveTask(task_id)
    \/ Tick(MaxSchedTime)
    \/ RunDue
    \/ \E outcome \in {"returned", "raised"} : CallbackDone(outcome)

SpecTools == InitPersisted /\ [][NextTools]_vars

\* the same with the loop, the callback and the clock going on
SpecToolsFair ==
    /\ SpecTools
    /\ WF_vars(Tick(MaxSchedTime))
    /\ WF_vars(RunDue)
    /\ WF_vars(\E outcome \in {"returned", "raised"} : CallbackDone(outcome))

(***************************************************************************)
(* SpecCron: _calculate_next_run calls for cron tasks with active_hours,   *)
(* as add_cron_task_handler passes them on: any two hours                  *)
(***************************************************************************)
CronWindows ==
    { <<CronPeriod, CronPeriod + 1>>,     \* holds the first cron time
      <<9, 17>>,
      <<22, 6>>,                          \* start > end
      <<8, 8>> }                          \* start = end

NextCron ==
    \/ \E active_hours \in CronWindows : CronStart(CronPeriod, active_hours)
    \/ CronNext
    \/ CronReturn
    \/ Tick(MaxSchedTime)

SpecCron == InitQuiet /\ [][NextCron]_vars

\* the loop of _calculate_next_run goes on
SpecCronFair == SpecCron /\ WF_vars(CronNext) /\ WF_vars(CronReturn)

(***************************************************************************)
(* SpecCrash: the scheduler of one process at a time: the process may be   *)
(* killed inside a save, and the next process loads the file               *)
(***************************************************************************)
NextCrash ==
    \/ AddTaskRunning("one_time", NoCron, now, NoHours)
    \/ AddTaskRunning("cron", CronPeriod, NoTime, NoHours)
    \/ AddTaskCrash("reminder", NoCron, now + 1, NoHours)
    \/ Tick(MaxSchedTime)
    \/ RunDue
    \/ \E outcome \in {"returned", "raised"} : CallbackDone(outcome)
    \/ Restart

SpecCrash == InitQuiet /\ [][NextCrash]_vars

(***************************************************************************)
(* SpecUserSessions: messages and /clear of one user, handled by update    *)
(* handlers that may overlap, and the clock (in hours)                     *)
(***************************************************************************)
NextUserSessions ==
    \/ \E h \in Handlers, kind \in {"message", "clear"} : GetOrCreateSelect(h, kind)
    \/ \E h \in Handlers : GetOrCreateInsert(h)
    \/ \E h \in Handlers : ProcessMessage(h)
    \/ \E h \in Handlers : ClearSession(h)
    \/ Tick(MaxSchedTime)

SpecUserSessions == InitQuiet /\ [][NextUserSessions]_vars

(***************************************************************************)
(* SpecRemove: SpecSched's loop with remove_task called on its Scheduler   *)
(***************************************************************************)
NextRemove ==
    \/ AddTask("one_time", NoCron, now, NoHours)
    \/ AddTask("cron", CronPeriod, NoTime, NoHours)
    \/ \E task_id \in TaskIds : RemoveTask(task_id)
    \/ Tick(MaxSchedTime)
    \/ RunDue
    \/ \E outcome \in {"returned", "raised"} : CallbackDone(outcome)

SpecRemove == InitQuiet /\ [][NextRemove]_vars

(***************************************************************************)
(* SpecRate: text updates of two users and the clock                       *)
(***************************************************************************)
NextRate ==
    \/ \E telegram_id \in TelegramIds, is_allowed \in BOOLEAN :
          MessageHandler(telegram_id, is_allowed)
    \/ Tick(MaxSchedTime)

SpecRate == InitQuiet /\ [][NextRate]_vars

(***************************************************************************)
(* SpecFunctions: single calls of the functions the loop is built from, on *)
(* any small log                                                           *)
(***************************************************************************)
MessageKinds ==
    { UserMessage(<<P("fact")>>, 0),
      UserMessage(<<P("hi")>>, 0),
      AssistantMessage(<<P("text")>>, <<>>, 0) }

Logs == UNION { [1..n -> MessageKinds] : n \in 0..MaxLogLen }

\* messages, result = await compact_conversation(llm, messages, config)
CompactConversation(enabled, summary_ok) ==
    /\ LET r == compact_conversation(messages, enabled, summary_ok)
       IN  /\ messages' = r.messages
           /\ last_op' = [op |-> "compact_conversation", id |-> NoId,
                          result |-> r.success, listed |-> {},
                          input |-> messages, enabled |-> enabled,
                          summary_ok |-> summary_ok, replaced |-> r.replaced,
                          gateway_called |-> r.gateway_called, raised |-> r.raised,
                          output |-> r.messages]
    /\ UNCHANGED <<sideVars, rows, compaction_count, pc, iteration, response, tc_idx, snapshot,
                   gateVars, now, waiters, schedVars, histVars>>

InitFunctions ==
    /\ messages \in Logs
    /\ InitTools
    /\ InitRate
    /\ InitMore
    /\ rows = <<>>
    /\ InitTurnState
    /\ InitGate
    /\ InitSched
    /\ approval_required = TRUE

NextFunctions ==
    \/ \E enabled \in BOOLEAN, summary_ok \in BOOLEAN :
          CompactConversation(enabled, summary_ok)

SpecFunctions == InitFunctions /\ [][NextFunctions]_vars

(***************************************************************************)
(* SpecEstimate: single calls of estimate_tokens on a small log, on the    *)
(* log with one more message, and on the log with one content lengthened   *)
(***************************************************************************)
\* text a content is lengthened by
ExtraParts == {P("hi"), P("found")}

\* estimate_tokens(messages) and estimate_tokens(messages + [m])
EstimateAppended(m) ==
    /\ last_op' = [op |-> "estimate_appended", input |-> messages, message |-> m,
                   tokens |-> estimate_tokens(messages),
                   tokens_after |-> estimate_tokens(Append(messages, m))]
    /\ UNCHANGED <<sideVars, agentVars, gateVars, now, waiters, schedVars, histVars>>

\* estimate_tokens(messages) and estimate_tokens of the same list with extra
\* text at the end of the content of message i
EstimateLengthened(i, extra) ==
    /\ i \in 1..Len(messages)
    /\ last_op' = [op |-> "estimate_lengthened", input |-> messages, index |-> i,
                   extra |-> extra,
                   tokens |-> estimate_tokens(messages),
                   tokens_after |-> estimate_tokens(
                       [messages EXCEPT ![i].content = @ \o <<extra>>])]
    /\ UNCHANGED <<sideVars, agentVars, gateVars, now, waiters, schedVars, histVars>>

NextEstimate ==
    \/ \E m \in MessageKinds : EstimateAppended(m)
    \/ \E i \in 1..MaxLogLen, extra \in ExtraParts : EstimateLengthened(i, extra)

SpecEstimate == InitFunctions /\ [][NextEstimate]_vars

(***************************************************************************)
(* SpecCalls: single calls of ConversationContext.truncate and of          *)
(* ToolRegistry.execute, on any small log                                  *)
(***************************************************************************)
\* names a tool call can carry: the registered ones and one that is not
CallNames == RegisteredTools \cup {"no_such_tool"}

\* context.truncate(max_messages)
ContextTruncate(max_messages) ==
    /\ messages' = truncate(messages, max_messages)
    /\ last_op' = [op |-> "truncate", id |-> NoId, result |-> FALSE, listed |-> {},
                   input |-> messages, max_messages |-> max_messages,
                   output |-> messages']
    /\ UNCHANGED <<sideVars, compaction_count, pc, iteration, response, tc_idx, snapshot, rows,
                   gateVars, now, waiters, schedVars, histVars>>

\* result = await tool_registry.execute(name, arguments)
Execute(name, arguments, outcome) ==
    /\ last_op' = [op |-> "execute", id |-> NoId,
                   result |-> execute(name, outcome).success, listed |-> {},
                   name |-> name, arguments |-> arguments, outcome |-> outcome,
                   returned |-> execute(name, outcome)]
    /\ UNCHANGED <<sideVars, agentVars, gateVars, now, waiters, schedVars, histVars>>

NextCalls ==
    \/ \E max_messages \in 0..MaxTruncate : ContextTruncate(max_messages)
    \/ \E name \in CallNames, arguments \in Arguments, outcome \in ToolOutcomes :
          Execute(name, arguments, outcome)

SpecCalls == InitFunctions /\ [][NextCalls]_vars

(***************************************************************************)
(* SpecRisk: the risk classification of the ApprovalManager: overrides and *)
(* needs_approval, with approval required or not                           *)
(***************************************************************************)
RiskLevels == {"safe", "moderate", "dangerous"}

RiskNames == {"web_search", "run_command", "unknown_tool"}

SetRiskLevel(tool_name, level) ==
    /\ risk_map' = Put(risk_map, tool_name, level)
    /\ last_op' = [op |-> "set_risk_level", id |-> NoId, result |-> FALSE,
                   listed |-> {}, name |-> tool_name, level |-> level]
    /\ UNCHANGED <<tools, rateVars, moreVars, agentVars, gateVars, now, waiters, schedVars, histVars>>

NeedsApproval(tool_name) ==
    /\ last_op' = [op |-> "needs_approval", id |-> NoId,
                   result |-> needs_approval(tool_name), listed |-> {},
                   name |-> tool_name]
    /\ UNCHANGED <<sideVars, agentVars, gateVars, now, waiters, schedVars, histVars>>

\* ApprovalManager(approval_required=...)
InitRisk ==
    /\ rows = <<>>
    /\ messages = get_context(rows)
    /\ InitTurnState
    /\ InitTools
    /\ InitRate
    /\ InitMore
    /\ InitGate
    /\ InitSched
    /\ approval_required \in BOOLEAN

NextRisk ==
    \/ \E tool_name \in RiskNames, level \in RiskLevels : SetRiskLevel(tool_name, level)
    \/ \E tool_name \in RiskNames : NeedsApproval(tool_name)

SpecRisk == InitRisk /\ [][NextRisk]_vars

(***************************************************************************)
(* SpecRegistry: the ToolRegistry on its own: register, unregister,        *)
(* get_definitions and execute in any order                                *)
(***************************************************************************)
\* tools handed to register: the default ones, other tools under the same
\* names, and a tool under a new name
RunCommandTool2 ==
    Tool("run_command", << ToolParameter("command", TRUE),
                           ToolParameter("timeout", TRUE) >>)

WebSearchTool2 == Tool("web_search", << ToolParameter("query", FALSE) >>)

RecallTool == Tool("recall", << ToolParameter("query", TRUE) >>)

SomeTools == {WebSearchTool, WebSearchTool2, RunCommandTool, RunCommandTool2, RecallTool}

SomeNames == {"web_search", "run_command", "recall", "no_such_tool"}

Register(tool) ==
    /\ tools' = register(tools, tool)
    /\ last_op' = [op |-> "register", id |-> NoId, result |-> FALSE, listed |-> {},
                   tool |-> tool]
    /\ UNCHANGED <<risk_map, rateVars, moreVars, agentVars, gateVars, now, waiters, schedVars, histVars>>

Unregister(name) ==
    /\ tools' = unregister(tools, name)
    /\ last_op' = [op |-> "unregister", id |-> NoId, result |-> FALSE, listed |-> {},
                   name |-> name]
    /\ UNCHANGED <<risk_map, rateVars, moreVars, agentVars, gateVars, now, waiters, schedVars, histVars>>

GetDefinitions ==
    /\ last_op' = [op |-> "get_definitions", id |-> NoId, result |-> FALSE,
                   listed |-> {}, definitions |-> get_definitions(tools)]
    /\ UNCHANGED <<sideVars, agentVars, gateVars, now, waiters, schedVars, histVars>>

NextRegistry ==
    \/ \E tool \in SomeTools : Register(tool)
    \/ \E name \in SomeNames : Unregister(name)
    \/ GetDefinitions
    \/ \E name \in SomeNames, arguments \in Arguments, outcome \in ToolOutcomes :
          Execute(name, arguments, outcome)

SpecRegistry == InitQuiet /\ [][NextRegistry]_vars

(***************************************************************************)
(* Claims about the agent loop                                             *)
(***************************************************************************)
\* caller p handles the tool call at tc_idx in this step
HandlesToolCall(p) == pc[p] = "tools" /\ tc_idx'[p] # tc_idx[p]

CurrentToolCall(p) == response[p].tool_calls[tc_idx[p]]

MentionsApproval(content, id) ==
    \E i \in 1..Len(content) : content[i] = PRef("approval_id", id)

\* C1: with approval required, handling a dangerous tool call creates exactly
\* one PendingApproval (risk dangerous, still pending) for that call, appends
\* one tool-role message with the call's tool_call_id whose content holds the
\* new approval id, and hands nothing to ToolRegistry.execute; no dangerous
\* call is ever among the executed ones.
C1_DangerousCallParked ==
    [][ /\ \A p \in Procs :
            ( /\ approval_required
              /\ HandlesToolCall(p)
              /\ get_risk_level(CurrentToolCall(p).name) = "dangerous" )
            => /\ Cardinality(DOMAIN pending') = Cardinality(DOMAIN pending) + 1
               /\ \E id \in (DOMAIN pending') \ (DOMAIN pending) :
                     /\ pending'[id].risk_level = "dangerous"
                     /\ pending'[id].tool_name = CurrentToolCall(p).name
                     /\ pending'[id].arguments = CurrentToolCall(p).arguments
                     /\ ~pending'[id].approved /\ ~pending'[id].denied
                     /\ Len(messages') = Len(messages) + 1
                     /\ messages'[Len(messages')].role = "tool"
                     /\ messages'[Len(messages')].tool_call_id = CurrentToolCall(p).id
                     /\ MentionsApproval(messages'[Len(messages')].content, id)
               /\ SubSeq(messages', 1, Len(messages)) = messages
               /\ executed' = executed
        /\ approval_required' =>
              \A i \in 1..Len(executed') :
                  get_risk_level(executed'[i].name) # "dangerous"
      ]_vars

C1_Witness ==
    /\ approval_required
    /\ \E i \in 1..Len(messages), id \in DOMAIN pending :
          /\ messages[i].role = "tool"
          /\ MentionsApproval(messages[i].content, id)
          /\ pending[id].risk_level = "dangerous"
    /\ executed # <<>>

\* C2: once approve(id) has succeeded for the request created for a dangerous
\* call, the same call (same tool name and arguments) issued again is handed
\* to ToolRegistry.execute.
C2_ApprovedCallExecutes ==
    [][ \A p \in Procs :
          ( /\ HandlesToolCall(p)
            /\ \E id \in DOMAIN pending :
                  /\ pending[id].approved
                  /\ pending[id].tool_name = CurrentToolCall(p).name
                  /\ pending[id].arguments = CurrentToolCall(p).arguments )
          => executed' = Append(executed, CurrentToolCall(p))
      ]_vars

\* I1 on a log
ToolResultsAnswered(msgs) ==
    \A i \in 1..Len(msgs) :
        msgs[i].role = "tool" =>
            \E j \in 1..(i - 1) :
                /\ msgs[j].role = "assistant"
                /\ \E k \in 1..Len(msgs[j].tool_calls) :
                      msgs[j].tool_calls[k].id = msgs[i].tool_call_id

\* C3: in every reachable state each tool-role message is preceded by an
\* assistant message whose tool_calls holds its tool_call_id.
C3_ToolResultsAnswered == ToolResultsAnswered(messages)

\* steps a turn of caller p can still take, at most
Rank(p) ==
    LET unit == MaxCalls + 2
        left == max_tool_iterations - iteration[p]
    IN  CASE pc[p] = "idle" -> 0
          [] pc[p] = "summarize" -> (max_tool_iterations + 1) * unit + 1
          [] pc[p] = "loop" -> left * unit + 1
          [] pc[p] = "tools" ->
                left * unit + 1 + (Len(response[p].tool_calls) - tc_idx[p] + 1)

\* C5: a turn makes at most max_tool_iterations + 1 gateway calls, the
\* compactor's included, and it terminates: while it runs it always has a next
\* step to take (it never waits, on an approval or on anything else) and each
\* of its steps lowers a rank that is bounded below.
C5_TurnTerminates ==
    /\ [](\A p \in Procs :
            /\ gateway_calls[p] <= max_tool_iterations + 1
            /\ Rank(p) >= 0
            /\ pc[p] # "idle" => ENABLED TurnStep(p))
    /\ [][\A p \in Procs :
            \/ UNCHANGED <<pc[p], iteration[p], tc_idx[p], gateway_calls[p]>>
            \/ pc[p] = "idle"
            \/ Rank(p)' < Rank(p)]_vars

C5_Witness ==
    /\ pc[1] = "idle"
    /\ turn_info[1].compacted
    /\ turn_info[1].outcome = "cap"
    /\ gateway_calls[1] = max_tool_iterations + 1
    /\ \E id \in DOMAIN pending : ~pending[id].approved /\ ~pending[id].denied

\* what C10 says of a message: everything but a tool result's text
Shape(m) ==
    [role |-> m.role, tool_calls |-> m.tool_calls, tool_call_id |-> m.tool_call_id,
     content |-> IF m.role = "tool" THEN <<>> ELSE m.content]

\* the messages C10 expects for one tool-calling response
ExpectedCycle(r) ==
    << Shape(AssistantMessage(r.content, r.tool_calls, 0)) >>
    \o [k \in 1..Len(r.tool_calls) |->
           Shape(ToolResultMessage(r.tool_calls[k].id, <<>>, "", 0))]

RECURSIVE ExpectedCycles(_)
ExpectedCycles(rs) ==
    IF rs = <<>> THEN <<>> ELSE ExpectedCycle(Head(rs)) \o ExpectedCycles(Tail(rs))

\* the messages C10 expects for a turn whose responses were rs, the last text-only
ExpectedGrowth(user, rs) ==
    << Shape(UserMessage(user, 0)) >>
    \o ExpectedCycles(SubSeq(rs, 1, Len(rs) - 1))
    \o << Shape(AssistantMessage(rs[Len(rs)].content, <<>>, 0)) >>

TextTurnEnded(p) ==
    /\ pc[p] = "idle"
    /\ turn_info[p].outcome = "text"
    /\ ~turn_info[p].compacted
    /\ ~turn_info[p].truncated

\* C10: a turn that gets its first text-only response on call j, without
\* compaction or truncation, makes exactly j gateway calls and grows the log by
\* the user message, one assistant message and one tool-role message per tool
\* call for each tool-calling response, and the final assistant text, which is
\* the reply.
C10_TurnGrowth ==
    \A p \in Procs :
        TextTurnEnded(p) =>
            LET rs == turn_info[p].responses
                grown == SubSeq(messages, turn_info[p].start_len + 1, Len(messages))
            IN  /\ gateway_calls[p] = Len(rs)
                /\ \A j \in 1..(Len(rs) - 1) : rs[j].tool_calls # <<>>
                /\ rs[Len(rs)].tool_calls = <<>>
                /\ [i \in 1..Len(grown) |-> Shape(grown[i])]
                      = ExpectedGrowth(turn_info[p].user, rs)
                /\ turn_info[p].reply = rs[Len(rs)].content

C10_Witness ==
    /\ TextTurnEnded(1)
    /\ Len(turn_info[1].responses) = max_tool_iterations
    /\ \E j \in 1..Len(turn_info[1].responses) :
          Len(turn_info[1].responses[j].tool_calls) = MaxCalls

(***************************************************************************)
(* Claims about concurrent turns (SpecConc)                                *)
(***************************************************************************)
\* C4: two concurrent process_message calls on one session are serialized:
\* the messages of one turn form a contiguous block of the log, none of another
\* turn standing between two of them.
C4_TurnsContiguous ==
    \A i, j, k \in 1..Len(messages) :
        ( /\ i < j /\ j < k
          /\ messages[i].turn # 0
          /\ messages[i].turn = messages[k].turn )
        => messages[j].turn \in {0, messages[i].turn}

(***************************************************************************)
(* Claims about the approval gate (SpecGate)                               *)
(***************************************************************************)
\* the request of id is awaiting a decision
CurrentlyPending(id) ==
    /\ id \in DOMAIN pending
    /\ ~pending[id].approved
    /\ ~pending[id].denied
    /\ ~(now > pending[id].expires_at)

\* C7: approve(id) and deny(id) return true exactly when id is currently
\* pending, and then set approved (denied) on that request, set its event and
\* touch nothing else of the gate; for an unknown, approved, denied or expired
\* id they return false and leave the gate state as it was.
C7_DecideOnlyPending ==
    [][ last_op'.op \in {"approve", "deny"} =>
          LET id == last_op'.id
          IN  /\ last_op'.result = CurrentlyPending(id)
              /\ last_op'.result =>
                    /\ DOMAIN pending' = DOMAIN pending
                    /\ \A x \in (DOMAIN pending) \ {id} : pending'[x] = pending[x]
                    /\ pending'[id] =
                          IF last_op'.op = "approve"
                          THEN [pending[id] EXCEPT !.approved = TRUE]
                          ELSE [pending[id] EXCEPT !.denied = TRUE]
                    /\ approval_events' = [approval_events EXCEPT ![id] = TRUE]
              /\ ~last_op'.result =>
                    /\ pending' = pending
                    /\ approval_events' = approval_events
              /\ approval_required' = approval_required
      ]_vars

\* deny was refused for a request approved before, approve for an id never issued
C7_Witness ==
    \/ /\ last_op.op = "deny" /\ ~last_op.result
       /\ last_op.id \in DOMAIN pending /\ pending[last_op.id].approved
    \/ /\ last_op.op = "approve" /\ last_op.result
       /\ pending[last_op.id].approved /\ approval_events[last_op.id]

\* C8: every caller of wait_for_approval(id, timeout) gets true when
\* approve(id) succeeded while it waited, before its timeout, whatever other
\* gate operations ran in between; it gets false when the request was denied
\* or the timeout passed.
C8_WaitersLearnDecision ==
    \A w \in Waiters :
        waiters[w].state = "done" =>
            /\ waiters[w].why = "approved" => waiters[w].result
            /\ waiters[w].why \in {"denied", "timeout"} => ~waiters[w].result

(***************************************************************************)
(* Claims about the scheduler (SpecSched)                                  *)
(***************************************************************************)
\* C6: a one-shot or reminder task is passed to the callback at most once over
\* its life, through stops, starts and restarts that reload the task file
\* (every save completes: tasks_file is always the whole of the last save).
C6_OneShotFiresOnce ==
    \A id \in DOMAIN tasks :
        tasks[id].task_type \in {"one_time", "reminder"} => fired[id] <= 1

Count(seq, x) == Cardinality({i \in 1..Len(seq) : seq[i] = x})

\* C9: when the callback of a fired task is over, returned or raised alike,
\* last_run is the time of that moment, a one-shot or reminder task is disabled
\* with no next_run, a recurring task stays enabled with a next_run after now,
\* the task file holds the tasks as they now are, and the rest of the tick's
\* due tasks go on: at the end of the tick each due task was passed to the
\* callback exactly once.
C9_FiredTaskState ==
    /\ [][ (loop.state = "callback" /\ Len(loop'.outcomes) = Len(loop.outcomes) + 1) =>
             LET id == loop.cur
                 before == tasks[id]
                 after == tasks'[id]
             IN  /\ after.last_run = now
                 /\ before.task_type \in {"one_time", "reminder"} =>
                       (~after.enabled /\ after.next_run = NoTime)
                 /\ before.task_type = "cron" =>
                       (after.enabled /\ after.next_run > now)
                 /\ \A x \in (DOMAIN tasks) \ {id} : tasks'[x] = tasks[x]
                 /\ DOMAIN tasks_file' = DOMAIN tasks'
                 /\ \A x \in DOMAIN tasks' :
                       /\ tasks_file'[x].enabled = tasks'[x].enabled
                       /\ tasks_file'[x].last_run = IsoFormat(tasks'[x].last_run)
                       /\ tasks_file'[x].next_run = IsoFormat(tasks'[x].next_run)
                 /\ loop'.due = loop.due
                 /\ loop.rest # <<>> =>
                       (loop'.state = "callback" /\ loop'.cur = Head(loop.rest))
         ]_vars
    /\ [](loop.state = "sleeping" =>
             /\ Len(loop.outcomes) = Len(loop.due)
             /\ \A i \in 1..Len(loop.due) : Count(loop.passed, loop.due[i]) = 1)

\* a tick of two due tasks is over, the first callback raised, the second returned
C9_Witness ==
    /\ loop.state = "sleeping"
    /\ Len(loop.due) = 2
    /\ loop.outcomes = <<"raised", "returned">>
    /\ \E id \in DOMAIN tasks : tasks[id].task_type = "cron" /\ tasks[id].last_run # NoTime
    /\ \E id \in DOMAIN tasks : tasks[id].task_type # "cron" /\ ~tasks[id].enabled

(***************************************************************************)
(* More claims about the agent loop (Spec)                                 *)
(***************************************************************************)
\* the last n messages of the log answer the calls, in their order
AnsweredInOrder(msgs, calls) ==
    LET n == Len(calls)
    IN  /\ Len(msgs) > n
        /\ msgs[Len(msgs) - n].role = "assistant"
        /\ msgs[Len(msgs) - n].tool_calls = calls
        /\ \A k \in 1..n :
              /\ msgs[Len(msgs) - n + k].role = "tool"
              /\ msgs[Len(msgs) - n + k].tool_call_id = calls[k].id

\* C11: the tool calls of one response go to ToolRegistry.execute one at a
\* time, in the order of the response, each at most once (no retry of a failed
\* one), and the next gateway call, like the end of the loop, comes only when
\* the tool-role result of every call of the response is in the log.
C11_ToolCallsInOrder ==
    /\ [](\A i, j \in 1..Len(executed) : i < j => executed[i].id < executed[j].id)
    /\ [][ \A p \in Procs :
             /\ executed' # executed =>
                   /\ Len(executed') = Len(executed) + 1
                   /\ SubSeq(executed', 1, Len(executed)) = executed
             /\ (HandlesToolCall(p) /\ executed' # executed) =>
                   /\ executed'[Len(executed')] = CurrentToolCall(p)
                   /\ messages'[Len(messages')].tool_call_id = CurrentToolCall(p).id
                   /\ Len(messages') = Len(messages) + 1
             /\ ( /\ pc[p] = "loop"
                  /\ pc'[p] # "loop" \/ gateway_calls'[p] # gateway_calls[p]
                  /\ response[p].tool_calls # <<>> ) =>
                   AnsweredInOrder(messages, response[p].tool_calls)
       ]_vars

\* both calls of one response were executed, the first failed, and the
\* gateway was called again
C11_Witness ==
    /\ Len(executed) = 2
    /\ Len(turn_info[1].responses) = 2
    /\ Len(turn_info[1].responses[1].tool_calls) = 2
    /\ \E i \in 1..Len(messages) :
          /\ messages[i].role = "tool"
          /\ messages[i].tool_call_id = executed[1].id
          /\ messages[i].content = <<P("Error: "), P("boom")>>
          /\ i < Len(messages)
          /\ messages[i + 1].role = "tool"
          /\ messages[i + 1].tool_call_id = executed[2].id

\* the gateway calls a turn made so far, from what the turn did
CallsOfTurn(p) ==
    Len(turn_info[p].responses)
    + (IF turn_info[p].compacted THEN 1 ELSE 0)
    + (IF turn_info[p].outcome = "error" THEN 1 ELSE 0)

\* C12: when generate raises, on the first or a later iteration, the turn ends
\* in that step with exactly one more message, an assistant message without
\* tool_calls holding the error text, which is the reply; no tool is called, no
\* further gateway call belongs to the turn, and the caller is left idle on a
\* log ending with an assistant message, where a next turn can begin.
C12_GatewayErrorEndsTurn ==
    /\ [][ \A p \in Procs :
             (pc[p] = "loop" /\ turn_info'[p].outcome = "error") =>
                /\ pc'[p] = "idle"
                /\ Len(messages') = Len(messages) + 1
                /\ SubSeq(messages', 1, Len(messages)) = messages
                /\ messages'[Len(messages')].role = "assistant"
                /\ messages'[Len(messages')].tool_calls = <<>>
                /\ messages'[Len(messages')].content =
                      <<P("llm_error_prefix"), P("api_error")>>
                /\ turn_info'[p].reply = messages'[Len(messages')].content
                /\ executed' = executed
                /\ gateway_calls'[p] = gateway_calls[p] + 1
       ]_vars
    /\ [](\A p \in Procs :
            (pc[p] = "idle" /\ turn_info[p].outcome = "error") =>
                /\ gateway_calls[p] = CallsOfTurn(p)
                /\ snapshot[p] = NoPlan
                /\ messages[Len(messages)].role = "assistant")

\* a turn went on and ended in text after a turn whose second gateway call,
\* made after a tool result, had raised
C12_Witness ==
    /\ pc[1] = "idle"
    /\ turns = 2
    /\ turn_info[1].outcome = "text"
    /\ \E i \in 2..Len(messages) :
          /\ messages[i].turn = 1
          /\ messages[i].content = <<P("llm_error_prefix"), P("api_error")>>
          /\ messages[i - 1].role = "tool"

\* C13: a turn in which every gateway call returned tool calls stops after
\* max_tool_iterations of them and appends one final assistant message without
\* tool_calls, the reply, whose text starts with the iteration-cap notice, the
\* text of the last response coming after it.
C13_CapNoticeFirst ==
    \A p \in Procs :
        (pc[p] = "idle" /\ turn_info[p].outcome = "cap") =>
            LET last == messages[Len(messages)]
                rs == turn_info[p].responses
            IN  /\ Len(rs) = max_tool_iterations
                /\ \A j \in 1..Len(rs) : rs[j].tool_calls # <<>>
                /\ last.role = "assistant"
                /\ last.tool_calls = <<>>
                /\ last.content = turn_info[p].reply
                /\ Head(last.content) = P("cap")


(***************************************************************************)
(* Claims about compaction and the registry (SpecFunctions)                *)
(***************************************************************************)
\* the last call was compact_conversation and it took the replacing branch
CompactionReplaced == last_op.op = "compact_conversation" /\ last_op.replaced

\* C14: whenever compact_conversation replaces the log, the last
\* keep_recent_messages entries of the returned log are the last
\* keep_recent_messages entries of the input log, in the same order.
C14_RecentSuffixKept ==
    CompactionReplaced =>
        LET inp == last_op.input
            out == last_op.output
        IN  /\ Len(inp) >= keep_recent_messages
            /\ Len(out) >= keep_recent_messages
            /\ \A j \in 0..(keep_recent_messages - 1) :
                   out[Len(out) - j] = inp[Len(inp) - j]

\* a replacement that kept an older message between the acknowledgement and the
\* recent ones, and whose recent messages are not all alike
C14_Witness ==
    /\ CompactionReplaced
    /\ Len(last_op.output) > 2 + 2 * keep_recent_messages
    /\ keep_recent_messages > 0
    /\ last_op.input[Len(last_op.input)] # last_op.input[Len(last_op.input) - 1]
    /\ last_op.input[Len(last_op.input)] # last_op.output[3]

\* C15: compaction_count goes up by exactly one in a step that replaces the log
\* with [summary, acknowledgement, preserved, recent], and no other step of a
\* turn changes it (estimate below the threshold, or a log of no more than
\* 2*keep_recent_messages messages: no replacement, no increment).
C15_CountTracksReplacement ==
    [][ LET replaces == \E p \in Procs : pc[p] = "summarize" /\ pc'[p] = "loop"
        IN  compaction_count' = compaction_count + (IF replaces THEN 1 ELSE 0) ]_vars

\* C16: compaction_count of a conversation never decreases, over turns,
\* compactions, cache evictions and reloads of the session from its rows.
C16_CountNeverDecreases ==
    [][compaction_count' >= compaction_count]_vars

\* C17: when compaction replaces the log the result is exactly: the user message
\* with the prefixed summary, the assistant acknowledgement, the older messages
\* of importance >= 8 in their order, then the last 2*keep_recent_messages
\* messages in their order; the same when the summary call raised, with the
\* fallback summary, and the call never raises.
C17_CompactedShape ==
    (last_op.op = "compact_conversation" /\ (last_op.replaced \/ last_op.raised)) =>
        LET inp == last_op.input
            k == 2 * keep_recent_messages
            older == SubSeq(inp, 1, Len(inp) - k)
            recent == SubSeq(inp, Len(inp) - k + 1, Len(inp))
            preserved == SelectSeq(older, LAMBDA m : classify_message_importance(m) >= 8)
            summary == IF last_op.summary_ok THEN P("summary") ELSE P("fallback")
        IN  /\ ~last_op.raised
            /\ Len(inp) > k
            /\ last_op.output =
                  << UserMessage(<<P("summary_prefix"), summary>>, 0),
                     AssistantMessage(<<P("ack")>>, <<>>, 0) >> \o preserved \o recent

\* the summary call raised, and an older message was preserved while another
\* was summarized away
C17_Witness ==
    /\ CompactionReplaced
    /\ ~last_op.summary_ok
    /\ Len(last_op.output) > 2 + 2 * keep_recent_messages
    /\ Len(last_op.output) < 1 + Len(last_op.input)

\* C18: compact_conversation returns the input log unchanged and makes no
\* gateway call when compaction is disabled, when the token estimate is below
\* the threshold, or when the log has no more than 2*keep_recent_messages
\* messages.
C18_NoCompactionNoCall ==
    (/\ last_op.op = "compact_conversation"
     /\ \/ ~last_op.enabled
        \/ estimate_tokens(last_op.input) < threshold_tokens
        \/ Len(last_op.input) <= 2 * keep_recent_messages) =>
        /\ last_op.output = last_op.input
        /\ messages = last_op.input
        /\ ~last_op.gateway_called
        /\ ~last_op.raised

\* each of the three cases alone: disabled on a long log over the threshold; a
\* long log under the threshold; a short log over the threshold
C18_WitnessDisabled ==
    /\ last_op.op = "compact_conversation"
    /\ ~last_op.enabled
    /\ estimate_tokens(last_op.input) >= threshold_tokens
    /\ Len(last_op.input) > 2 * keep_recent_messages

C18_WitnessBelow ==
    /\ last_op.op = "compact_conversation"
    /\ last_op.enabled
    /\ estimate_tokens(last_op.input) < threshold_tokens
    /\ Len(last_op.input) > 2 * keep_recent_messages

C18_Witness ==
    /\ last_op.op = "compact_conversation"
    /\ last_op.enabled
    /\ estimate_tokens(last_op.input) >= threshold_tokens
    /\ Len(last_op.input) <= 2 * keep_recent_messages
    /\ Len(last_op.input) > 0

(***************************************************************************)
(* Claims about truncation (Spec)                                          *)
(***************************************************************************)
\* s is the last Len(s) entries of t
IsSuffix(s, t) ==
    /\ Len(s) <= Len(t)
    /\ \A j \in 1..Len(s) : s[j] = t[Len(t) - Len(s) + j]

\* C19 with max_context_messages as set in this model (positive):
\* after a turn that ends with a text-only reply the conversation holds at
\* most max_context_messages messages, and they are the most recent ones in
\* their order: the log as it was before the reply, with the reply appended,
\* less messages removed from its head only.
C19_TurnTruncated ==
    [][ \A p \in Procs :
          (pc[p] = "loop" /\ pc'[p] = "idle" /\ turn_info'[p].outcome = "text") =>
              LET full == Append(messages, messages'[Len(messages')])
              IN  /\ messages' # <<>>
                  /\ messages'[Len(messages')].role = "assistant"
                  /\ messages'[Len(messages')].content = turn_info'[p].reply
                  /\ Len(messages') <= max_context_messages
                  /\ Len(messages') = IF Len(full) <= max_context_messages
                                      THEN Len(full) ELSE max_context_messages
                  /\ IsSuffix(messages', full) ]_vars

\* C19 for truncate alone: after context.truncate(max_messages) the
\* conversation holds at most max_messages messages, the most recent ones in
\* their order.
C19_TruncateBounded ==
    last_op.op = "truncate" =>
        /\ Len(last_op.output) <= last_op.max_messages
        /\ IsSuffix(last_op.output, last_op.input)

\* a text reply after which messages were dropped from the head
C19_Witness ==
    \E p \in Procs :
        /\ pc[p] = "idle"
        /\ turn_info[p].outcome = "text"
        /\ turn_info[p].truncated
        /\ Len(messages) = max_context_messages
        /\ messages[1].turn = cur_turn[p]

(***************************************************************************)
(* Claims about the registry (SpecCalls)                                   *)
(***************************************************************************)
\* C20: ToolRegistry.execute never raises, whatever the name and arguments: a
\* name that is not registered gives a result with success false and the
\* tool-not-found error, and a tool whose execute raises gives a result with
\* success false whose error is the exception text.
C20_ExecuteNeverRaises ==
    last_op.op = "execute" =>
        LET r == last_op.returned
        IN  /\ ~r.raised
            /\ last_op.name \notin RegisteredTools =>
                   (~r.success /\ r.error = <<P("not_found")>> /\ r.output = <<>>)
            /\ (last_op.name \in RegisteredTools /\ last_op.outcome = "raise") =>
                   (~r.success /\ r.error = <<P("boom")>> /\ r.output = <<>>)

\* a registered tool raised
C20_Witness ==
    /\ last_op.op = "execute"
    /\ last_op.name \in RegisteredTools
    /\ last_op.outcome = "raise"

\* a name that is not registered was called
C20_WitnessNotFound ==
    /\ last_op.op = "execute"
    /\ last_op.name \notin RegisteredTools

(***************************************************************************)
(* Claims about the registry (SpecRegistry)                                *)
(***************************************************************************)
\* the elements of a sequence
Range(seq) == {seq[i] : i \in 1..Len(seq)}

\* C21: after any register and unregister calls the registry holds, for each
\* name, the tool most recently registered under it (a register of a held name
\* replaces and never duplicates; each call changes the one name it is given
\* and no other), and get_definitions lists exactly one definition per
\* registered name, with the tool's name and every required parameter name in
\* parameters.required.
C21_RegistryHoldsLatest ==
    /\ [][ /\ last_op'.op = "register" =>
                /\ get(tools', last_op'.tool.name) = last_op'.tool
                /\ \A n \in SomeNames \ {last_op'.tool.name} :
                       get(tools', n) = get(tools, n)
                /\ Len(tools') = Len(tools)
                       + (IF get(tools, last_op'.tool.name) = NoTool THEN 1 ELSE 0)
           /\ last_op'.op = "unregister" =>
                /\ get(tools', last_op'.name) = NoTool
                /\ \A n \in SomeNames \ {last_op'.name} :
                       get(tools', n) = get(tools, n)
       ]_vars
    /\ [](/\ \A i, j \in 1..Len(tools) : tools[i].key = tools[j].key => i = j
          /\ \A i \in 1..Len(tools) : tools[i].value.name = tools[i].key
          /\ last_op.op = "get_definitions" =>
                LET defs == last_op.definitions
                IN  /\ Len(defs) = Cardinality(Keys(tools))
                    /\ \A n \in Keys(tools) :
                          /\ Cardinality({i \in 1..Len(defs) : defs[i].name = n}) = 1
                          /\ \A i \in 1..Len(defs) :
                                (defs[i].name = n /\ get(tools, n).kind = "Tool") =>
                                    \A q \in Range(get(tools, n).parameters) :
                                        q.required =>
                                            q.name \in Range(defs[i].parameters.required)
                    /\ \A i \in 1..Len(defs) : defs[i].name \in Keys(tools))

\* a tool registered under a held name took the place of the old one, between
\* two other entries
C21_Witness ==
    /\ last_op.op = "register"
    /\ last_op.tool = RunCommandTool2
    /\ Len(tools) = 3
    /\ tools[2].value = RunCommandTool2
    /\ tools[3].key = "recall"

(***************************************************************************)
(* Claims about the risk classification (SpecRisk)                         *)
(***************************************************************************)
\* the level of a name before any override: its entry of the default map, or
\* moderate
DefaultLevel(n) ==
    CASE n = "web_search"   -> "safe"
      [] n = "run_command"  -> "dangerous"
      [] OTHER              -> "moderate"

\* what get_risk_level answers for n on the map m
LevelOn(m, n) == IF n \in DOMAIN m THEN m[n] ELSE "moderate"

\* C22: needs_approval(tool) is true exactly when approval is required and the
\* tool's current risk level is dangerous; the current level starts as the
\* default-map entry (moderate for an unknown tool) and is changed only by
\* set_risk_level, for the one name given, to the level given.
C22_NeedsApprovalIffDangerous ==
    /\ \A n \in RiskNames : get_risk_level(n) = DefaultLevel(n)
    /\ [][ /\ last_op'.op = "set_risk_level" =>
                /\ LevelOn(risk_map', last_op'.name) = last_op'.level
                /\ \A n \in RiskNames \ {last_op'.name} :
                       LevelOn(risk_map', n) = get_risk_level(n)
           /\ last_op'.op # "set_risk_level" =>
                \A n \in RiskNames : LevelOn(risk_map', n) = get_risk_level(n)
       ]_vars
    /\ [](last_op.op = "needs_approval" =>
            (last_op.result <=>
                (approval_required /\ get_risk_level(last_op.name) = "dangerous")))

\* asked about a tool that is safe by default and was made dangerous, after a
\* tool that is dangerous by default was made safe
C22_Witness ==
    /\ last_op.op = "needs_approval"
    /\ last_op.name = "web_search"
    /\ last_op.result
    /\ get_risk_level("run_command") = "safe"
    /\ get_risk_level("unknown_tool") = "moderate"
    /\ "unknown_tool" \notin DOMAIN risk_map

(***************************************************************************)
(* More claims about the gate (SpecGate)                                   *)
(***************************************************************************)
\* C23: list_pending returns exactly the requests that were created and are
\* neither approved, denied nor expired (no such request is ever dropped from
\* the gate), and when it has returned the gate stores no approved, denied or
\* expired request.
C23_ListPendingExact ==
    /\ [](last_op.op = "list_pending" =>
            /\ last_op.listed = {id \in 1..approvals_created : CurrentlyPending(id)}
            /\ \A id \in DOMAIN pending : CurrentlyPending(id)
            /\ DOMAIN approval_events = DOMAIN pending)
    /\ [](DOMAIN pending \subseteq 1..approvals_created)
    /\ [][\A id \in (DOMAIN pending) \ (DOMAIN pending') : ~CurrentlyPending(id)]_vars

\* of two requests one was decided and swept, the other is listed
C23_Witness ==
    /\ last_op.op = "list_pending"
    /\ approvals_created = 2
    /\ Cardinality(last_op.listed) = 1
    /\ DOMAIN pending = last_op.listed
    /\ now > 0

(***************************************************************************)
(* More claims about the scheduler (SpecSched)                             *)
(***************************************************************************)
\* C24: saving all tasks to the task file and loading the file into a fresh
\* Scheduler yields the same tasks with equal fields (id, kind, cron
\* expression, scheduled time, active window, enabled, last_run, next_run), in
\* every task state the scheduler reaches: enabled or disabled, never fired or
\* already fired.
C24_SaveLoadRoundTrip == load_tasks(save_tasks(tasks)) = tasks

\* the hour of the clock is inside the task's active window (no window: any
\* hour is)
InWindow(task) ==
    \/ task.active_hours = NoHours
    \/ task.active_hours[1] <= Hour(now) /\ Hour(now) < task.active_hours[2]

\* C25: a task with an active window (start, end) is not passed to the
\* callback on a tick whose hour is outside [start, end), even when it is
\* enabled and its next_run has passed: every task a wake of the loop collects
\* is inside its window at the hour of that wake, and only collected tasks
\* reach the callback, in the order collected.
C25_WindowRespected ==
    /\ [][(loop.state = "sleeping" /\ loop'.state = "callback") =>
            /\ loop'.due # <<>>
            /\ \A i \in 1..Len(loop'.due) :
                  /\ InWindow(tasks[loop'.due[i]])
                  /\ tasks[loop'.due[i]].enabled
                  /\ tasks[loop'.due[i]].next_run # NoTime
                  /\ tasks[loop'.due[i]].next_run <= now]_vars
    /\ [](loop.state = "callback" =>
            /\ Len(loop.passed) <= Len(loop.due)
            /\ loop.passed = SubSeq(loop.due, 1, Len(loop.passed))
            /\ loop.cur = loop.passed[Len(loop.passed)])

\* a wake at an hour outside the window of task 1 passed task 2 to the
\* callback and left task 1 alone, though it is enabled and its next_run has
\* passed
C25_Witness ==
    /\ loop.state = "callback"
    /\ loop.due = <<2>>
    /\ DOMAIN tasks = {1, 2}
    /\ tasks[1].active_hours # NoHours
    /\ tasks[1].enabled
    /\ tasks[1].next_run # NoTime
    /\ tasks[1].next_run <= now
    /\ ~InWindow(tasks[1])
    /\ fired[1] = 0
    /\ tasks[2].task_type = "cron"
    /\ tasks[2].next_run <= tasks[1].next_run

(***************************************************************************)
(* Claims about the rate limiter (SpecRate)                                *)
(***************************************************************************)
\* messages of user u admitted in the window that ends now
AdmittedInWindow(u) ==
    Cardinality({i \in 1..Len(admitted[u]) : now - admitted[u][i] < RateWindow})

\* C26: for each user check_rate_limit admits at most rate_limit_messages
\* messages within any window of one minute; a message it rejects is not
\* handed to process_message and is not counted against later messages: a
\* message is admitted exactly when fewer than rate_limit_messages admitted
\* messages of that user lie in the window that ends now.
C26_RateLimit ==
    /\ [](\A u \in TelegramIds : \A s \in 0..now :
            Cardinality({i \in 1..Len(admitted[u]) :
                            s <= admitted[u][i] /\ admitted[u][i] < s + RateWindow})
                <= rate_limit_messages)
    /\ [][last_op'.op = "message" =>
            /\ last_op'.allowed <=>
                  AdmittedInWindow(last_op'.telegram_id) < rate_limit_messages
            /\ ~last_op'.allowed => entered' = entered /\ admitted' = admitted
            /\ \A u \in TelegramIds \ {last_op'.telegram_id} :
                  /\ entered'[u] = entered[u]
                  /\ admitted'[u] = admitted[u]]_vars

\* a user at the limit is rejected twice, and admitted again and handed to
\* process_message once the window has passed
C26_Witness ==
    /\ last_op.op = "message"
    /\ last_op.telegram_id = 1
    /\ last_op.allowed
    /\ handled = MaxMessages
    /\ Len(admitted[1]) = rate_limit_messages + 1
    /\ admitted[1][rate_limit_messages + 1] = now
    /\ Len(admitted[2]) = 0
    /\ entered[1] = 1
    /\ last_op.is_allowed

(***************************************************************************)
(* More claims about the compaction functions (SpecEstimate,               *)
(* SpecFunctions)                                                          *)
(***************************************************************************)
\* C27: estimate_tokens is 0 for the empty list, and appending a message to a
\* list, or lengthening the content of one of its messages, never lowers the
\* estimate.
C27_EstimateMonotone ==
    (last_op.op \in {"estimate_appended", "estimate_lengthened"}) =>
        /\ last_op.input = <<>> => last_op.tokens = 0
        /\ last_op.tokens_after >= last_op.tokens
        /\ last_op.tokens >= 0

\* a content lengthened by two characters, which the division by
\* CHARS_PER_TOKEN hides: the estimate stays as it was
C27_Witness ==
    /\ last_op.op = "estimate_lengthened"
    /\ last_op.extra = P("hi")
    /\ Len(last_op.input) >= 2
    /\ last_op.tokens_after = last_op.tokens
    /\ last_op.tokens > 0

\* a message appended to the empty list: the estimate rises from 0
C27_WitnessEmpty ==
    /\ last_op.op = "estimate_appended"
    /\ last_op.input = <<>>
    /\ last_op.tokens = 0
    /\ last_op.tokens_after > 0

(***************************************************************************)
(* More claims about the turn (Spec)                                       *)
(***************************************************************************)
\* the compaction check of _maybe_compact would replace this log
CompactionDue(msgs) ==
    estimate_tokens(msgs) >= threshold_tokens /\ compaction_plan(msgs, TRUE).replace

\* C28: within a turn the compaction check runs before every gateway generate
\* call: a log that was below the threshold at the first generate call of the
\* turn and crossed it through the messages appended during the turn is
\* compacted before the next generate call, so no later generate call of the
\* turn is made on a log the check would replace.
C28_CompactBeforeEveryCall ==
    [][\A p \in Procs :
          (/\ iteration'[p] > iteration[p]
           /\ iteration[p] >= 1
           /\ ~CompactionDue(SubSeq(messages, 1, turn_info[p].start_len + 1)))
          => ~CompactionDue(messages)]_vars

\* ids of the tool calls carried by the assistant messages of a log, and ids
\* the tool-role messages of a log answer
ToolCallIds(msgs) ==
    UNION { {msgs[i].tool_calls[j].id : j \in 1..Len(msgs[i].tool_calls)} :
            i \in 1..Len(msgs) }

ToolResultIds(msgs) ==
    {msgs[i].tool_call_id : i \in {k \in 1..Len(msgs) : msgs[k].role = "tool"}}


\* C29: compaction keeps an assistant message that carries tool_calls together
\* with the tool-role messages answering those calls, or drops them together:
\* when a compaction replaces the log, the new log holds no tool result whose
\* calling assistant message was in the old log and is gone, and no
\* tool-calling assistant message whose results were in the old log and are
\* gone.
C29_ToolPairsKeptTogether ==
    [][\A p \in Procs :
          (pc[p] = "summarize" /\ pc'[p] = "loop") =>
              /\ \A id \in ToolResultIds(messages') \cap ToolCallIds(messages) :
                    id \in ToolCallIds(messages')
              /\ \A id \in ToolCallIds(messages') \cap ToolResultIds(messages) :
                    id \in ToolResultIds(messages')]_vars


\* C30: every compaction that replaces the log yields a log with fewer
\* messages than the input log.
C30_CompactionShortens ==
    CompactionReplaced => Len(last_op.output) < Len(last_op.input)

(***************************************************************************)
(* Claims about the two Schedulers of one process (SpecTools, SpecRemove)  *)
(***************************************************************************)
\* C31: only one Scheduler writes the task file: a task added, removed or
\* marked completed through one path (the loop of the application's
\* Scheduler, or the scheduler tools) is never lost or reverted by a later
\* save made through the other path: every task created and not removed is
\* in the file, no removed task is, and a task the loop has marked completed
\* is completed in the file.
C31_SingleWriter ==
    /\ \A id \in (DOMAIN fired) \ removed : id \in DOMAIN tasks_file
    /\ \A id \in removed : id \notin DOMAIN tasks_file
    /\ \A id \in (DOMAIN tasks) \cap (DOMAIN tasks_file) :
          tasks[id].last_run # NoTime => tasks_file[id].last_run # IsoFormat(NoTime)


\* the tools' Scheduler holds task id, enabled and with its time reached
ToolTaskDue(id) ==
    /\ id \in DOMAIN tool_scheduler.tasks
    /\ tool_scheduler.tasks[id].enabled
    /\ tool_scheduler.tasks[id].next_run # NoTime
    /\ tool_scheduler.tasks[id].next_run <= now

C39_RemovedNeverFires ==
    [][\A id \in removed : fired'[id] = fired[id]]_vars


(***************************************************************************)
(* Claims about _calculate_next_run (SpecCronFair)                         *)
(***************************************************************************)
\* C32: computing a cron task's next_run always terminates: when no upcoming
\* cron time falls inside the active window (a window with start >= end, or
\* cron hours outside the window) the computation gives up.
C32_NextRunTerminates ==
    [](cron_scan.state = "scanning" => <>(cron_scan.state # "scanning"))


(***************************************************************************)
(* Claims about the task file across a crash (SpecCrash)                   *)
(***************************************************************************)
\* C33: the task file is rewritten atomically: at every instant, a crash in
\* the middle of a save included, it holds one complete document, so a load
\* never finds a partial file and never starts empty because of one.
C33_AtomicRewrite ==
    /\ tasks_file # PartialFile
    /\ \A id \in DOMAIN tasks_file : tasks_file[id].id = id


(***************************************************************************)
(* Claims about expiry of approval requests (SpecGate)                     *)
(***************************************************************************)
\* an undecided request created more than five minutes ago
Lapsed(id) ==
    /\ id \in DOMAIN pending
    /\ ~pending[id].approved
    /\ ~pending[id].denied
    /\ now > pending[id].created_at + 5

\* C34: a PendingApproval neither approved nor denied within 5 minutes of its
\* creation is expired with no further action: from then on it is not
\* reported as pending, approve and deny on it return false, and it never
\* becomes approved.
C34_ExpiredStaysExpired ==
    [][ \A id \in ApprovalIds :
          Lapsed(id) =>
             /\ last_op'.op = "list_pending" => id \notin last_op'.listed
             /\ (last_op'.op \in {"approve", "deny"} /\ last_op'.id = id) =>
                   ~last_op'.result
             /\ id \in DOMAIN pending' =>
                   (~pending'[id].approved /\ ~pending'[id].denied)
      ]_vars

\* approve was refused for a request that lapsed undecided and is still held
C34_Witness ==
    /\ last_op.op = "approve"
    /\ ~last_op.result
    /\ Lapsed(last_op.id)


(***************************************************************************)
(* Claims about decided approval requests (SpecWait)                       *)
(***************************************************************************)
\* C40: no PendingApproval is ever both approved and denied, and a request
\* that has been approved or denied never returns to pending nor switches to
\* the other decision, under any interleaving of create, approve, deny,
\* list_pending and wait_for_approval.
C40_DecisionFinal ==
    [][ /\ \A id \in DOMAIN pending' :
              ~(pending'[id].approved /\ pending'[id].denied)
        /\ \A id \in (DOMAIN pending) \cap (DOMAIN pending') :
              /\ pending[id].approved =>
                    (pending'[id].approved /\ ~is_pending(pending'[id]))
              /\ pending[id].denied =>
                    (pending'[id].denied /\ ~is_pending(pending'[id]))
        /\ \A id \in (DOMAIN pending) \ (DOMAIN pending') :
              id # approvals_created' \/ approvals_created' = approvals_created
      ]_vars

\* a caller of wait_for_approval got the approval, and a deny of the same
\* request that came afterwards was refused
C40_Witness ==
    /\ last_op.op = "deny"
    /\ ~last_op.result
    /\ last_op.id \in DOMAIN pending
    /\ pending[last_op.id].approved
    /\ ~pending[last_op.id].denied
    /\ \E w \in Waiters : waiters[w].state = "done" /\ waiters[w].why = "approved"
                          /\ waiters[w].result


(***************************************************************************)
(* Claims about denied and expired requests in a conversation (SpecDeny)   *)
(***************************************************************************)
\* the request was denied, or it expired undecided
Refused(id) ==
    /\ id \in DOMAIN pending
    /\ \/ pending[id].denied
       \/ (~pending[id].approved /\ is_expired(pending[id]))

\* a tool-role message whose text reports a denial or an expiry
ReportsRefusal(m) ==
    /\ m.role = "tool"
    /\ \E i \in DOMAIN m.content : m.content[i].t \in {"denied", "expired"}

\* C35: when a PendingApproval created during a conversation is denied or
\* expires, the conversation receives a tool-role message reporting "denied"
\* or "expired" for the call, so that the model sees the outcome on its next
\* gateway call.
C35_RefusalReported ==
    [][ \A p \in Procs :
          (pc[p] = "loop" /\ gateway_calls'[p] = gateway_calls[p] + 1) =>
             \A id \in DOMAIN pending :
                Refused(id) => \E i \in DOMAIN messages : ReportsRefusal(messages[i])
      ]_vars


(***************************************************************************)
(* Claims about a user's sessions (SpecUserSessions)                       *)
(***************************************************************************)
\* C36: after clear_session for a user, the user's next message is processed
\* on a new session whose conversation holds none of the earlier messages;
\* and a message that arrives more than the idle timeout after the last
\* activity starts a new session with an empty conversation.
C36_ClearStartsFresh ==
    last_op.op = "process_message" =>
       /\ Range(last_op.context) \cap last_op.old = {}
       /\ last_op.idle => last_op.context = <<>>

\* C38: a user never has more than one active, non-expired session at a time,
\* also when two of the user's messages arrive at the same time before any
\* session exists.
C38_OneLiveSession == Cardinality(LiveSessions) <= 1
====
